---- MODULE Spec2Model ----
(***************************************************************************)
(* Model of the yield-to-payout pipeline of iwi-policy-pilot:               *)
(* load_and_merge of MakeExogenousExcelInputDataframe.py.                   *)
(*                                                                         *)
(* Numbers are exact rationals [n, d] in lowest terms with d > 0; the      *)
(* record with d = 0 is the null of pandas (NaN / NA).  Floating-point     *)
(* rounding is not modelled.  Text is a sequence of one-character strings. *)
(***************************************************************************)
EXTENDS Integers, Sequences, FiniteSets, TLC

VARIABLES df_vill, df_thresh, df_ts, region_map, df_final, pc, regional,
          region_in, area_out, ts_table, year_col,
          sheet_df, sheet_cols, wb, raised, sheet_op,
          pivot, sheet2_grid, cov_table, benefit, benefit_op, rerun,
          raw_vill, raw_ts, raw_year, year_parsed,
          report_years, sheet3_labels, sheet7_chart,
          highlands_df, metadata_df, match_result, report_pc

vars == <<df_vill, df_thresh, df_ts, region_map, df_final, pc, regional,
          region_in, area_out, ts_table, year_col,
          sheet_df, sheet_cols, wb, raised, sheet_op,
          pivot, sheet2_grid, cov_table, benefit, benefit_op, rerun,
          raw_vill, raw_ts, raw_year, year_parsed,
          report_years, sheet3_labels, sheet7_chart,
          highlands_df, metadata_df, match_result, report_pc>>

\* the state of load_and_merge
pipeline_vars == <<df_vill, df_thresh, df_ts, region_map, df_final, pc>>

\* the call of a region -> zone mapping: its argument and what it returned
area_vars == <<region_in, area_out>>

\* the call of _find_year_column: its argument and what it returned
year_vars == <<ts_table, year_col>>

\* a call of a sheet builder or of its _resolve_cols: the columns of the
\* dataframe, the resolved columns, the workbook, the exception raised and
\* the function called
sheet_vars == <<sheet_df, sheet_cols, wb, raised, sheet_op>>

\* the state of the operations outside load_and_merge and
\* build_regional_statistics
\* the table pivoted by build_excel_sheet1 and the grid of build_excel_sheet2
pivot_vars == <<pivot, sheet2_grid>>

\* the state of the builders of the report
\* the computation of the diversification benefit: the CoV rows read, the
\* benefit of each zone and the function that computed it
benefit_vars == <<cov_table, benefit, benefit_op>>

\* a second run of load_and_merge on the same files: its region map and
\* its table
rerun_vars == <<rerun>>

\* the cells of the files as text: the Pixel column of the crosswalk, the
\* pixel columns of the time series, a year column, and that column parsed
raw_vars == <<raw_vill, raw_ts, raw_year, year_parsed>>

\* the years of the report, the year labels of sheet 3 and the rows of sheet 7
chart_vars == <<report_years, sheet3_labels, sheet7_chart>>

\* the files read by match_villages_to_pixels and what it returned
match_vars == <<highlands_df, metadata_df, match_result>>

\* the step of build_final_report that runs next, 0 outside it
build_vars == <<report_pc>>

extra_vars == <<chart_vars, match_vars, build_vars>>

report_vars == <<pivot_vars, benefit_vars, rerun_vars, raw_vars, extra_vars>>

helper_vars == <<area_vars, year_vars, sheet_vars, report_vars>>

\* the state outside load_and_merge
other_vars == <<regional, helper_vars>>

\* nothing is loaded
PipelineIdle ==
    /\ df_vill = <<>>
    /\ df_thresh = <<>>
    /\ df_ts = <<>>
    /\ region_map = <<>>
    /\ df_final = <<>>
    /\ pc = "idle"

AreaIdle ==
    /\ region_in = <<>>
    /\ area_out = <<>>

YearIdle ==
    /\ ts_table = <<>>
    /\ year_col = "?"

SheetIdle ==
    /\ sheet_df = <<>>
    /\ sheet_cols = <<>>
    /\ wb = <<>>
    /\ raised = <<>>
    /\ sheet_op = "none"

PivotIdle == pivot = <<>> /\ sheet2_grid = <<>>

BenefitIdle ==
    /\ cov_table = <<>>
    /\ benefit = <<>>
    /\ benefit_op = "none"

RerunIdle == rerun = <<>>

RawIdle ==
    /\ raw_vill = <<>>
    /\ raw_ts = <<>>
    /\ raw_year = <<>>
    /\ year_parsed = <<>>

ChartIdle ==
    /\ report_years = {}
    /\ sheet3_labels = <<>>
    /\ sheet7_chart = <<>>

MatchIdle ==
    /\ highlands_df = <<>>
    /\ metadata_df = <<>>
    /\ match_result = <<>>

BuildIdle == report_pc = 0

ExtraIdle == ChartIdle /\ MatchIdle /\ BuildIdle

ReportIdle == PivotIdle /\ BenefitIdle /\ RerunIdle /\ RawIdle /\ ExtraIdle

HelpersIdle == AreaIdle /\ YearIdle /\ SheetIdle /\ ReportIdle

\* each operation outside load_and_merge is idle until it runs
OthersIdle ==
    /\ regional = <<>>
    /\ HelpersIdle

----------------------------------------------------------------------------
(* Exact arithmetic with null propagation (float64 with NaN).              *)

Abs(x) == IF x < 0 THEN -x ELSE x

RECURSIVE GCD(_, _)
GCD(a, b) == IF b = 0 THEN a ELSE GCD(b, a % b)

NaN == [n |-> 0, d |-> 0]

\* the rational num/den in lowest terms, den # 0
Rat(num, den) ==
    LET g == GCD(Abs(num), Abs(den))
        s == IF den < 0 THEN -1 ELSE 1
    IN  [n |-> (s * num) \div g, d |-> (s * den) \div g]

Num(k) == [n |-> k, d |-> 1]

Zero == Num(0)

One == Num(1)

isna(x) == x.d = 0

Add(x, y) == IF isna(x) \/ isna(y) THEN NaN ELSE Rat(x.n * y.d + y.n * x.d, x.d * y.d)

Sub(x, y) == IF isna(x) \/ isna(y) THEN NaN ELSE Rat(x.n * y.d - y.n * x.d, x.d * y.d)

\* the factors are reduced crosswise before they are multiplied
Mul(x, y) ==
    IF isna(x) \/ isna(y) THEN NaN
    ELSE LET g1 == GCD(Abs(x.n), y.d)
             g2 == GCD(Abs(y.n), x.d)
         IN  [n |-> (x.n \div g1) * (y.n \div g2), d |-> (x.d \div g2) * (y.d \div g1)]

\* x / y for y a non-zero number or null; a zero divisor is the caller's case
Div(x, y) == IF isna(x) \/ isna(y) THEN NaN ELSE Mul(x, Rat(y.d, y.n))

\* comparisons are False as soon as one side is null, as for NaN
Lt(x, y) == ~isna(x) /\ ~isna(y) /\ x.n * y.d < y.n * x.d

Gt(x, y) == Lt(y, x)

Le(x, y) == ~isna(x) /\ ~isna(y) /\ x.n * y.d <= y.n * x.d

IsZero(x) == ~isna(x) /\ x.n = 0

----------------------------------------------------------------------------
(* Sequence helpers.                                                       *)

RECURSIVE SelectRows(_, _)
SelectRows(s, keep) ==
    IF s = <<>> THEN <<>>
    ELSE IF keep[1] THEN <<Head(s)>> \o SelectRows(Tail(s), Tail(keep))
    ELSE SelectRows(Tail(s), Tail(keep))

RECURSIVE Concat(_)
Concat(ss) == IF ss = <<>> THEN <<>> ELSE Head(ss) \o Concat(Tail(ss))

RECURSIVE SumSeq(_)
SumSeq(s) == IF s = <<>> THEN Zero ELSE Add(Head(s), SumSeq(Tail(s)))

\* Series.dropna()
dropna(s) == SelectRows(s, [i \in 1..Len(s) |-> ~isna(s[i])])

\* ascending sort of a series without nulls
sorted(s) == SortSeq(s, Lt)

----------------------------------------------------------------------------
(* Series statistics of pandas: nulls are skipped.                         *)

\* quantile with the interpolation weight q itself instead of the fractional
\* part of the position q * (n - 1)
quantile_weight_q(s, q) ==
    LET v == sorted(dropna(s))
    IN  IF Len(v) = 0 THEN NaN
        ELSE IF Len(v) = 1 THEN v[1]
        ELSE Add(v[1], Mul(q, Sub(v[2], v[1])))

\* Series.quantile(q), linear interpolation between the closest ranks:
\* position q * (n - 1) in the sorted non-null values
quantile(s, q) ==
    LET v    == sorted(dropna(s))
        n    == Len(v)
        pos  == Mul(q, Num(n - 1))
        lo   == pos.n \div pos.d
        frac == Sub(pos, Num(lo))
    IN  IF n = 0 THEN NaN
        ELSE IF IsZero(frac) THEN v[lo + 1]
        ELSE Add(v[lo + 1], Mul(frac, Sub(v[lo + 2], v[lo + 1])))

\* Series.mean()
mean(s) ==
    LET v == dropna(s)
    IN  IF v = <<>> THEN NaN ELSE Div(SumSeq(v), Num(Len(v)))

\* A standard deviation is kept exactly, as the number coef * sqrt(rad);
\* coef null is the null, and zero is 0 * sqrt(0).
Root(coef, rad) ==
    IF isna(coef) \/ isna(rad) THEN [coef |-> NaN, rad |-> NaN]
    ELSE IF coef.n = 0 \/ rad.n = 0 THEN [coef |-> Zero, rad |-> Zero]
    ELSE [coef |-> coef, rad |-> rad]

RECURSIVE GcdNum(_)
GcdNum(v) == IF v = <<>> THEN 0 ELSE GCD(Abs(Head(v).n), GcdNum(Tail(v)))

RECURSIVE LcmDen(_)
LcmDen(v) ==
    IF v = <<>> THEN 1
    ELSE LET l == LcmDen(Tail(v)) IN (Head(v).d \div GCD(Head(v).d, l)) * l

\* the largest unit of which every number of v is a whole multiple
Unit(v) == IF GcdNum(v) = 0 THEN One ELSE Rat(GcdNum(v), LcmDen(v))

\* Series.std(), n - 1 in the denominator; null for fewer than two values.
\* The deviations from the mean are u * z[i] for whole z[i], so that the
\* standard deviation is u * sqrt(sum(z[i]^2) / (n - 1)).
std(s) ==
    LET v   == dropna(s)
        m   == mean(s)
        dev == [i \in 1..Len(v) |-> Sub(v[i], m)]
        u   == Unit(dev)
        zz  == [i \in 1..Len(v) |-> Mul(Div(dev[i], u), Div(dev[i], u))]
    IN  IF Len(v) < 2 THEN Root(NaN, NaN)
        ELSE Root(u, Div(SumSeq(zz), Num(Len(v) - 1)))

\* root / x, for x a non-zero number or null
DivRoot(r, x) == Root(Div(r.coef, x), r.rad)

RECURSIVE MinSeq(_)
MinSeq(v) ==
    IF Len(v) = 1 THEN v[1]
    ELSE LET m == MinSeq(Tail(v)) IN IF Lt(Head(v), m) THEN Head(v) ELSE m

RECURSIVE MaxSeq(_)
MaxSeq(v) ==
    IF Len(v) = 1 THEN v[1]
    ELSE LET m == MaxSeq(Tail(v)) IN IF Gt(Head(v), m) THEN Head(v) ELSE m

\* Series.min() and Series.max()
min(s) == IF dropna(s) = <<>> THEN NaN ELSE MinSeq(dropna(s))

max(s) == IF dropna(s) = <<>> THEN NaN ELSE MaxSeq(dropna(s))

\* fillna(0) of one cell of a numeric column, and of a standard deviation
fillna0(x) == IF isna(x) THEN Zero ELSE x

fillnaRoot0(r) == IF isna(r.coef) THEN Root(Zero, Zero) ELSE r


----------------------------------------------------------------------------
(* Text: a string is a sequence of one-character strings.                  *)

UpperCase ==
    ("A" :> "a") @@ ("B" :> "b") @@ ("C" :> "c") @@ ("D" :> "d") @@ ("E" :> "e") @@ ("F" :> "f") @@
    ("G" :> "g") @@ ("H" :> "h") @@ ("I" :> "i") @@ ("J" :> "j") @@ ("K" :> "k") @@ ("L" :> "l") @@
    ("M" :> "m") @@ ("N" :> "n") @@ ("O" :> "o") @@ ("P" :> "p") @@ ("Q" :> "q") @@ ("R" :> "r") @@
    ("S" :> "s") @@ ("T" :> "t") @@ ("U" :> "u") @@ ("V" :> "v") @@ ("W" :> "w") @@ ("X" :> "x") @@
    ("Y" :> "y") @@ ("Z" :> "z")

\* str.lower()
lower(s) == [i \in 1..Len(s) |-> IF s[i] \in DOMAIN UpperCase THEN UpperCase[s[i]] ELSE s[i]]

\* the Python test  needle in hay  on strings
In(needle, hay) ==
    \E i \in 0..(Len(hay) - Len(needle)) : SubSeq(hay, i + 1, i + Len(needle)) = needle

\* the region -> zone table of load_and_merge, in dictionary order
tanzania_zones ==
    <<
       <<"Northern Zone", <<
          <<"A", "r", "u", "s", "h", "a">>,
          <<"K", "i", "l", "i", "m", "a", "n", "j", "a", "r", "o">>,
          <<"M", "a", "n", "y", "a", "r", "a">>,
          <<"T", "a", "n", "g", "a">>>> >>,
       <<"Central Zone", <<
          <<"D", "o", "d", "o", "m", "a">>,
          <<"S", "i", "n", "g", "i", "d", "a">>,
          <<"T", "a", "b", "o", "r", "a">>>> >>,
       <<"Lake Zone", <<
          <<"G", "e", "i", "t", "a">>,
          <<"K", "a", "g", "e", "r", "a">>,
          <<"M", "a", "r", "a">>,
          <<"M", "w", "a", "n", "z", "a">>,
          <<"S", "h", "i", "n", "y", "a", "n", "g", "a">>,
          <<"S", "i", "m", "i", "y", "u">>>> >>,
       <<"Western Zone", <<
          <<"K", "i", "g", "o", "m", "a">>,
          <<"K", "a", "t", "a", "v", "i">>>> >>,
       <<"Southern Highlands Zone", <<
          <<"I", "r", "i", "n", "g", "a">>,
          <<"M", "b", "e", "y", "a">>,
          <<"N", "j", "o", "m", "b", "e">>,
          <<"R", "u", "k", "w", "a">>,
          <<"R", "u", "v", "u", "m", "a">>,
          <<"S", "o", "n", "g", "w", "e">>>> >>,
       <<"Coastal Zone", <<
          <<"D", "a", "r", " ", "e", "s", " ", "S", "a", "l", "a", "a", "m">>,
          <<"L", "i", "n", "d", "i">>,
          <<"M", "o", "r", "o", "g", "o", "r", "o">>,
          <<"M", "t", "w", "a", "r", "a">>,
          <<"P", "w", "a", "n", "i">>>> >>,
       <<"Zanzibar (Islands)", <<
          <<"P", "e", "m", "b", "a", " ", "N", "o", "r", "t", "h">>,
          <<"P", "e", "m", "b", "a", " ", "S", "o", "u", "t", "h">>,
          <<"U", "n", "g", "u", "j", "a", " ", "N", "o", "r", "t", "h">>,
          <<"U", "n", "g", "u", "j", "a", " ", "S", "o", "u", "t", "h">>,
          <<"M", "j", "i", "n", "i", " ", "M", "a", "g", "h", "a", "r", "i", "b", "i">>>> >>
    >>

\* the (area, region) pairs in the order the two loops visit them
ZoneEntries ==
    Concat([z \in 1..Len(tanzania_zones) |->
              [k \in 1..Len(tanzania_zones[z][2]) |->
                 [area |-> tanzania_zones[z][1], reg |-> tanzania_zones[z][2][k]]]])

\* map_region_to_area without the substring fallback: equal names only
map_region_to_area_exact(region) ==
    LET r    == lower(region)
        hits == {i \in 1..Len(ZoneEntries) : r = lower(ZoneEntries[i].reg)}
    IN  IF hits = {} THEN "Unknown"
        ELSE ZoneEntries[CHOOSE i \in hits : \A j \in hits : i <= j].area

map_region_to_area(region) ==
    LET r    == lower(region)
        hits == {i \in 1..Len(ZoneEntries) :
                    LET reg == lower(ZoneEntries[i].reg)
                    IN  r = reg \/ In(r, reg) \/ In(reg, r)}
    IN  IF hits = {} THEN "Unknown"
        ELSE ZoneEntries[CHOOSE i \in hits : \A j \in hits : i <= j].area


----------------------------------------------------------------------------
(* Bounds and input domains.                                               *)

\* rows of the wide time series (one row per year)
MaxYears == 4

\* rows of the village / pixel crosswalk
MaxVill == 2

\* first year given to the rows when the time series has no year column
start_year == 1981

Txt_Arusha == <<"A", "r", "u", "s", "h", "a">>

Txt_Rukwa == <<"R", "u", "k", "w", "a">>

\* the region in which each pixel of the crosswalk lies
RegionOfPixel == (0 :> Txt_Arusha) @@ (1 :> Txt_Rukwa)

Regions == {RegionOfPixel[p] : p \in DOMAIN RegionOfPixel}

\* pixel numbers of the columns "pixel 0", "pixel 1" of the time series,
\* in column order
TsColumns == <<0, 1>>

Pixels == {TsColumns[k] : k \in 1..Len(TsColumns)}

\* relative yields of the first column, and of the other columns
YieldVals == {NaN, Rat(1, 2), One, Rat(3, 2)}

OtherYieldVals == {Rat(1, 2), Rat(3, 2)}

ThreshVals == {NaN, Zero, Num(1000), Num(-1000)}

OtherThreshVals == {Num(1000)}

\* outcomes of random.randint(1000, 1500) kept by the model
LoanVals == {1000, 1500}

\* the model lists the yields of a column in ascending order, nulls first
Ordered(s) == \A i \in 1..(Len(s) - 1) : isna(s[i]) \/ Le(s[i], s[i + 1])

ColumnYields(c) == IF c = TsColumns[1] THEN YieldVals ELSE OtherYieldVals

ColumnThresh(c) == IF c = TsColumns[1] THEN ThreshVals ELSE OtherThreshVals

----------------------------------------------------------------------------
(* load_and_merge, step by step.                                           *)

\* pd.merge(left, right, on='Pixel', how='left'): the left rows in order,
\* each with every right row of the same Pixel (null keys match each other),
\* or once with nulls; nulls is the right-hand columns, all null
merge_left(left, right, nulls) ==
    Concat([i \in 1..Len(left) |->
        LET hit == SelectRows(right, [j \in 1..Len(right) |-> right[j].Pixel = left[i].Pixel])
        IN  IF hit = <<>> THEN <<left[i] @@ nulls>>
            ELSE [j \in 1..Len(hit) |-> left[i] @@ hit[j]]])

\* melt with the years counted from start_year + 1
melt_from_one(ts, cols) ==
    Concat([k \in 1..Len(cols) |->
        [i \in 1..Len(ts) |->
            [Year  |-> Num(start_year + i),
             Pixel |-> Num(cols[k]),
             Yield |-> ts[i][cols[k]]]]])

\* df_ts.melt(...) with the Year column of the row ordinal and the Pixel
\* number taken from the column name: column by column, year by year
melt(ts, cols) ==
    Concat([k \in 1..Len(cols) |->
        [i \in 1..Len(ts) |->
            [Year  |-> Num(start_year + i - 1),
             Pixel |-> Num(cols[k]),
             Yield |-> ts[i][cols[k]]]]])

\* merged with how='inner' in the merge with the threshold metadata: a
\* crosswalk row without a threshold row is dropped
merged_inner_thresh(vill, thresh, ts, cols) ==
    LET villF   == [i \in 1..Len(vill) |-> vill[i] @@ [FarmerID |-> i]]
        kept    == SelectRows(villF, [i \in 1..Len(villF) |->
                       \E j \in 1..Len(thresh) : thresh[j].Pixel = villF[i].Pixel])
        df_meta == merge_left(kept, thresh, [Threshold_Yield |-> NaN])
    IN  merge_left(df_meta, melt(ts, cols), [Year |-> NaN, Yield |-> NaN])

\* lines 48-133: FarmerID, the two left merges
merged(vill, thresh, ts, cols) ==
    LET villF   == [i \in 1..Len(vill) |-> vill[i] @@ [FarmerID |-> i]]
        df_meta == merge_left(villF, thresh, [Threshold_Yield |-> NaN])
    IN  merge_left(df_meta, melt(ts, cols), [Year |-> NaN, Yield |-> NaN])

\* the column col of the rows of df whose column key equals k
group(df, key, k, col) ==
    LET g == SelectRows(df, [i \in 1..Len(df) |-> df[i][key] = k])
    IN  [i \in 1..Len(g) |-> g[i][col]]

\* the keys of df.groupby(key): the non-null values of the column
group_keys(df, key) == {df[i][key] : i \in 1..Len(df)} \ {NaN}

\* df.groupby("Pixel")["Yield_Abs"].transform(lambda x: x.quantile(q)):
\* the quantile of each group, null for the rows that belong to no group
group_quantile(df, q) ==
    LET qs == [k \in group_keys(df, "Pixel") |-> quantile(group(df, "Pixel", k, "Yield_Abs"), q)]
    IN  [i \in 1..Len(df) |-> IF isna(df[i].Pixel) THEN NaN ELSE qs[df[i].Pixel]]

\* with_thresholds with the quantiles taken of the relative yield and scaled
\* by the threshold yield afterwards
with_thresholds_scaled(df) ==
    LET abs == [i \in 1..Len(df) |->
                  df[i] @@ [Yield_Abs |-> Mul(df[i].Yield, df[i].Threshold_Yield)]]
        rel(k, q) == quantile(group(abs, "Pixel", k, "Yield"), q)
    IN  [i \in 1..Len(abs) |->
            abs[i] @@ [Attach |-> Mul(rel(abs[i].Pixel, Rat(1, 2)), abs[i].Threshold_Yield),
                       Detach |-> Mul(rel(abs[i].Pixel, Rat(3, 20)), abs[i].Threshold_Yield)]]

\* lines 136-139: Yield_Abs, Attach, Detach
with_thresholds(df) ==
    LET abs    == [i \in 1..Len(df) |->
                     df[i] @@ [Yield_Abs |-> Mul(df[i].Yield, df[i].Threshold_Yield)]]
        attach == group_quantile(abs, Rat(1, 2))
        detach == group_quantile(abs, Rat(3, 20))
    IN  [i \in 1..Len(abs) |-> abs[i] @@ [Attach |-> attach[i], Detach |-> detach[i]]]

\* df_final["Region"].apply(map_region_to_area), computed once per region name
area_of_region == [r \in Regions |-> map_region_to_area(r)]

unique_regions(df) == {df[i].Region : i \in 1..Len(df)}

\* lines 140-208: Loan_Amount from the region map, the two renames, Area
with_loan_and_area(df, rmap) ==
    [i \in 1..Len(df) |->
        [Index_ID        |-> df[i].Pixel,
         Pixel_ID        |-> df[i].FarmerID,
         Year            |-> df[i].Year,
         Yield           |-> df[i].Yield,
         Threshold_Yield |-> df[i].Threshold_Yield,
         Region          |-> df[i].Region,
         Yield_Abs       |-> df[i].Yield_Abs,
         Attach          |-> df[i].Attach,
         Detach          |-> df[i].Detach,
         Loan_Amount     |-> Num(rmap[df[i].Region]),
         Area            |-> area_of_region[df[i].Region]]]

\* line 212, the lambda on one row; the row values are Python floats, so a
\* zero divisor raises ZeroDivisionError
payout_raises(x) ==
    /\ ~Gt(x.Yield_Abs, x.Attach)
    /\ ~Lt(x.Yield_Abs, x.Detach)
    /\ IsZero(Sub(x.Attach, x.Detach))

\* payout_percent with the numerator measured from the wrong end
payout_percent_reversed(x) ==
    IF Gt(x.Yield_Abs, x.Attach) THEN Zero
    ELSE IF Lt(x.Yield_Abs, x.Detach) THEN One
    ELSE Div(Sub(x.Yield_Abs, x.Detach), Sub(x.Attach, x.Detach))

\* payout_percent without the cap above Attach
payout_percent_uncapped(x) ==
    IF Lt(x.Yield_Abs, x.Detach) THEN One
    ELSE Div(Sub(x.Attach, x.Yield_Abs), Sub(x.Attach, x.Detach))

\* payout_percent with the sign of the numerator flipped
payout_percent_flipped(x) ==
    IF Gt(x.Yield_Abs, x.Attach) THEN Zero
    ELSE IF Lt(x.Yield_Abs, x.Detach) THEN One
    ELSE Div(Sub(x.Yield_Abs, x.Attach), Sub(x.Attach, x.Detach))

payout_percent(x) ==
    IF Gt(x.Yield_Abs, x.Attach) THEN Zero
    ELSE IF Lt(x.Yield_Abs, x.Detach) THEN One
    ELSE Div(Sub(x.Attach, x.Yield_Abs), Sub(x.Attach, x.Detach))

\* the insured share of the loan, the 0.4 of line 214
InsuredShare == Rat(2, 5)

\* sum_insured with the uninsured share of the loan
sum_insured_rest(loan) == Mul(loan, Sub(One, InsuredShare))

sum_insured(loan) == Mul(loan, InsuredShare)

\* lines 212-216 when no row raises
with_payouts(df) ==
    [i \in 1..Len(df) |->
        LET pct == payout_percent(df[i])
            si  == sum_insured(df[i].Loan_Amount)
        IN  df[i] @@ [PayoutsPercent   |-> pct,
                      Sum_Insured      |-> si,
                      PayoutAmountBase |-> Mul(pct, si)]]

\* pixel_stats with fillna(0) applied before the CoV column is computed
pixel_stats_fill_first(s) ==
    LET avg == fillna0(mean(s))
        sd  == fillnaRoot0(std(s))
    IN  [PayoutAvg |-> avg,
         PayoutSD  |-> sd,
         PayoutMin |-> fillna0(min(s)),
         PayoutMax |-> fillna0(max(s)),
         Payout90  |-> fillna0(quantile(s, Rat(9, 10))),
         Payout95  |-> fillna0(quantile(s, Rat(19, 20))),
         PayoutCoV |-> DivRoot(sd, IF IsZero(avg) THEN NaN ELSE avg)]

\* lines 219-231: the statistics of one Pixel_ID group, CoV, fillna(0)
pixel_stats(s) ==
    LET avg == mean(s)
        sd  == std(s)
        cov == DivRoot(sd, IF IsZero(avg) THEN NaN ELSE avg)
    IN  [PayoutAvg |-> fillna0(avg),
         PayoutSD  |-> fillnaRoot0(sd),
         PayoutMin |-> fillna0(min(s)),
         PayoutMax |-> fillna0(max(s)),
         Payout90  |-> fillna0(quantile(s, Rat(9, 10))),
         Payout95  |-> fillna0(quantile(s, Rat(19, 20))),
         PayoutCoV |-> fillnaRoot0(cov)]

\* lines 227-234: the statistics merged back on Pixel_ID
with_stats(df) ==
    LET stats == [k \in {df[i].Pixel_ID : i \in 1..Len(df)} |->
                    pixel_stats(group(df, "Pixel_ID", k, "PayoutAmountBase"))]
    IN  [i \in 1..Len(df) |-> df[i] @@ stats[df[i].Pixel_ID]]

----------------------------------------------------------------------------
(* The state machine.                                                      *)

Init ==
    /\ \E px \in [1..MaxVill -> Pixels] :
          df_vill = [i \in 1..MaxVill |-> [Region |-> RegionOfPixel[px[i]], Pixel |-> Num(px[i])]]
    /\ \E t \in [Pixels -> ThreshVals] :
          /\ \A c \in Pixels : t[c] \in ColumnThresh(c)
          /\ df_thresh = [k \in 1..Len(TsColumns) |->
                            [Pixel |-> Num(TsColumns[k]), Threshold_Yield |-> t[TsColumns[k]]]]
    /\ df_ts \in [1..MaxYears -> [Pixels -> YieldVals \cup OtherYieldVals]]
    /\ \A i \in 1..MaxYears : \A c \in Pixels : df_ts[i][c] \in ColumnYields(c)
    /\ \A c \in Pixels : Ordered([i \in 1..MaxYears |-> df_ts[i][c]])
    /\ region_map = <<>>
    /\ df_final = <<>>
    /\ pc = "start"
    /\ OthersIdle

MergeInputs ==
    /\ pc = "start"
    /\ df_final' = merged(df_vill, df_thresh, df_ts, TsColumns)
    /\ pc' = "merged"
    /\ UNCHANGED <<df_vill, df_thresh, df_ts, region_map>>
    /\ UNCHANGED other_vars

DeriveThresholds ==
    /\ pc = "merged"
    /\ df_final' = with_thresholds(df_final)
    /\ pc' = "thresholds"
    /\ UNCHANGED <<df_vill, df_thresh, df_ts, region_map>>
    /\ UNCHANGED other_vars

AssignLoanAndArea ==
    /\ pc = "thresholds"
    /\ region_map' \in [unique_regions(df_final) -> LoanVals]
    /\ df_final' = with_loan_and_area(df_final, region_map')
    /\ pc' = "loans"
    /\ UNCHANGED <<df_vill, df_thresh, df_ts>>
    /\ UNCHANGED other_vars

DerivePayouts ==
    /\ pc = "loans"
    /\ \A i \in 1..Len(df_final) : ~payout_raises(df_final[i])
    /\ df_final' = with_payouts(df_final)
    /\ pc' = "payouts"
    /\ UNCHANGED <<df_vill, df_thresh, df_ts, region_map>>
    /\ UNCHANGED other_vars

\* the apply of line 212 raises: load_and_merge ends without a table
RaiseZeroDivision ==
    /\ pc = "loans"
    /\ {i \in 1..Len(df_final) : payout_raises(df_final[i])} # {}
    /\ pc' = "raised"
    /\ UNCHANGED <<df_vill, df_thresh, df_ts, region_map, df_final>>
    /\ UNCHANGED other_vars

PixelStats ==
    /\ pc = "payouts"
    /\ df_final' = with_stats(df_final)
    /\ pc' = "done"
    /\ UNCHANGED <<df_vill, df_thresh, df_ts, region_map>>
    /\ UNCHANGED other_vars

Next ==
    \/ MergeInputs
    \/ DeriveThresholds
    \/ AssignLoanAndArea
    \/ DerivePayouts
    \/ RaiseZeroDivision
    \/ PixelStats

Spec == Init /\ [][Next]_vars


----------------------------------------------------------------------------
(* Properties of load_and_merge.                                           *)

Rows == 1..Len(df_final)

\* the payout columns exist
Paid == pc \in {"payouts", "done"}

\* the threshold columns exist (Pixel is renamed Index_ID by the next step)
Thresholded == pc \in {"thresholds", "loans", "raised", "payouts", "done"}

PixelOf(x) == IF pc = "thresholds" THEN x.Pixel ELSE x.Index_ID

\* the non-null absolute yields of the observations of Pixel_ID k, ascending
YieldsOfPixelID(k) == sorted(dropna(group(df_final, "Pixel_ID", k, "Yield_Abs")))

\* the payout fraction lies strictly between 0 and 1
Partial(x) == Lt(Zero, x.PayoutsPercent) /\ Lt(x.PayoutsPercent, One)

\* C1: every observation with a non-null yield_abs whose pixel has
\* detach < attach gets payout fraction 0 above attach, 1 below detach and
\* (attach - yield_abs) / (attach - detach) in between; the observations of a
\* pixel with absolute yields 500, 1000, 1500 get 1, 0 and 0.
C1_PayoutFractionPiecewise ==
    Paid =>
        \A i \in Rows :
            LET x == df_final[i]
            IN  (~isna(x.Yield_Abs) /\ Lt(x.Detach, x.Attach)) =>
                    /\ Gt(x.Yield_Abs, x.Attach) => x.PayoutsPercent = Zero
                    /\ Lt(x.Yield_Abs, x.Detach) => x.PayoutsPercent = One
                    /\ (Le(x.Detach, x.Yield_Abs) /\ Le(x.Yield_Abs, x.Attach)) =>
                           /\ ~isna(x.PayoutsPercent)
                           /\ Mul(x.PayoutsPercent, Sub(x.Attach, x.Detach))
                                  = Sub(x.Attach, x.Yield_Abs)
                    /\ YieldsOfPixelID(x.Pixel_ID) = <<Num(500), Num(1000), Num(1500)>> =>
                           x.PayoutsPercent = IF x.Yield_Abs = Num(500) THEN One ELSE Zero

\* a returned table with an observation strictly between detach and attach
C1_Witness ==
    /\ pc = "done"
    /\ \E i \in Rows :
          /\ Lt(df_final[i].Detach, df_final[i].Yield_Abs)
          /\ Lt(df_final[i].Yield_Abs, df_final[i].Attach)
          /\ Partial(df_final[i])

\* C2 as stated: every observation of the returned table has a payout
\* fraction in [0, 1].
C2_AllFractionsInUnitInterval ==
    Paid =>
        \A i \in Rows :
            /\ Le(Zero, df_final[i].PayoutsPercent)
            /\ Le(df_final[i].PayoutsPercent, One)

\* C2 amended: the payout fraction of an observation is null exactly when
\* its yield_abs is null, and lies in [0, 1] otherwise.
C2_FractionNullOrInUnitInterval ==
    Paid =>
        \A i \in Rows :
            LET x == df_final[i]
            IN  /\ isna(x.PayoutsPercent) <=> isna(x.Yield_Abs)
                /\ ~isna(x.PayoutsPercent) =>
                       Le(Zero, x.PayoutsPercent) /\ Le(x.PayoutsPercent, One)

\* a returned table with a null payout fraction, a full payout and an
\* observation above attach with no payout
C2_Witness ==
    /\ pc = "done"
    /\ \E i, j, k \in Rows :
          /\ isna(df_final[i].PayoutsPercent)
          /\ df_final[j].PayoutsPercent = One
          /\ Gt(df_final[k].Yield_Abs, df_final[k].Attach)
          /\ df_final[k].PayoutsPercent = Zero

\* C3: within one pixel a higher absolute yield never receives a higher
\* payout fraction.
C3_FractionNonIncreasingInYield ==
    Paid =>
        \A i, j \in Rows :
            LET x == df_final[i]
                y == df_final[j]
            IN  (x.Index_ID = y.Index_ID /\ Lt(x.Yield_Abs, y.Yield_Abs)) =>
                    Le(y.PayoutsPercent, x.PayoutsPercent)

\* a pixel whose fractions fall from 1 through a partial payout to 0
C3_Witness ==
    /\ pc = "done"
    /\ \E i, j, k \in Rows :
          /\ df_final[i].Index_ID = df_final[j].Index_ID
          /\ df_final[j].Index_ID = df_final[k].Index_ID
          /\ Lt(df_final[i].Yield_Abs, df_final[j].Yield_Abs)
          /\ Lt(df_final[j].Yield_Abs, df_final[k].Yield_Abs)
          /\ df_final[i].PayoutsPercent = One
          /\ Partial(df_final[j])
          /\ df_final[k].PayoutsPercent = Zero

\* C4: the thresholds of a pixel with at least one non-null yield_abs are
\* numbers with detach <= attach, whatever the sign of the yields; a pixel
\* without any non-null yield_abs has no thresholds (both null).
C4_DetachAtMostAttach ==
    Thresholded =>
        \A i \in Rows :
            LET x    == df_final[i]
                data == \E j \in Rows :
                           /\ PixelOf(df_final[j]) = PixelOf(x)
                           /\ ~isna(df_final[j].Yield_Abs)
            IN  IF data THEN Le(x.Detach, x.Attach)
                ELSE isna(x.Detach) /\ isna(x.Attach)

\* a pixel with negative absolute yields and detach < attach
C4_Witness ==
    /\ pc = "thresholds"
    /\ \E i \in Rows :
          /\ Lt(df_final[i].Yield_Abs, Zero)
          /\ Lt(df_final[i].Detach, df_final[i].Attach)


\* the Pixel and FarmerID columns carry their final names
Renamed == pc \in {"loans", "raised", "payouts", "done"}

\* what load_and_merge produces for pixel p from the inputs: nothing when
\* the payout step raises, else the observations of p in table order
Observations(p, vill, thresh, ts, cols) ==
    LET t    == with_thresholds(merged(vill, thresh, ts, cols))
        rows == SelectRows(t, [i \in 1..Len(t) |-> t[i].Pixel = Num(p)])
    IN  IF \E i \in 1..Len(t) : payout_raises(t[i]) THEN <<>>
        ELSE [i \in 1..Len(rows) |->
                [Year           |-> rows[i].Year,
                 Yield_Abs      |-> rows[i].Yield_Abs,
                 Attach         |-> rows[i].Attach,
                 Detach         |-> rows[i].Detach,
                 PayoutsPercent |-> payout_percent(rows[i])]]

\* the same, read off the state of the run
Produced(p) ==
    LET rows == SelectRows(df_final, [i \in Rows |-> df_final[i].Index_ID = Num(p)])
    IN  IF pc = "raised" THEN <<>>
        ELSE [i \in 1..Len(rows) |->
                [Year           |-> rows[i].Year,
                 Yield_Abs      |-> rows[i].Yield_Abs,
                 Attach         |-> rows[i].Attach,
                 Detach         |-> rows[i].Detach,
                 PayoutsPercent |-> rows[i].PayoutsPercent]]

\* the data set that agrees with the inputs on pixel p and holds no other pixel
OwnVill(p) == SelectRows(df_vill, [i \in 1..Len(df_vill) |-> df_vill[i].Pixel = Num(p)])

OwnThresh(p) == SelectRows(df_thresh, [i \in 1..Len(df_thresh) |-> df_thresh[i].Pixel = Num(p)])

\* C5: no cross-pixel leakage.  What a run produces for pixel p (yield_abs,
\* attach, detach, payout_fraction of each of its observations) is what the
\* run on the data of pixel p alone produces, so that two data sets that
\* agree on p produce the same for p.
C5_NoCrossPixelLeakage ==
    pc \in {"raised", "payouts", "done"} =>
        \A p \in Pixels : Produced(p) = Observations(p, OwnVill(p), OwnThresh(p), df_ts, <<p>>)

\* the same restricted to the runs that return a table
C5_NoLeakageInReturnedTables ==
    Paid =>
        \A p \in Pixels : Produced(p) = Observations(p, OwnVill(p), OwnThresh(p), df_ts, <<p>>)

\* the pixel of row x has the relative yields 0.5, 1.0, 1.5 (its other years
\* missing) and the threshold yield 1000
Scenario(x) ==
    /\ sorted(dropna(group(df_final, "Pixel_ID", x.Pixel_ID, "Yield")))
           = <<Rat(1, 2), One, Rat(3, 2)>>
    /\ x.Threshold_Yield = Num(1000)

\* the pixel of row x has one row in the crosswalk
SingleCrosswalkRow(x) ==
    \A j \in Rows : df_final[j].Index_ID = x.Index_ID => df_final[j].Pixel_ID = x.Pixel_ID

\* C6 as stated: the pixel of the scenario (one crosswalk row, as input A
\* has one row per pixel) gets attach 1000 and detach 575.
C6_ScenarioDetach575 ==
    Renamed =>
        \A i \in Rows :
            (Scenario(df_final[i]) /\ SingleCrosswalkRow(df_final[i])) =>
                df_final[i].Attach = Num(1000) /\ df_final[i].Detach = Num(575)

\* C6 amended: the pixel of the scenario, with one crosswalk row, gets
\* attach 1000 and detach 650 (position 0.15 * (3 - 1) = 0.3 between 500
\* and 1000).
C6_ScenarioDetach650 ==
    Renamed =>
        \A i \in Rows :
            (Scenario(df_final[i]) /\ SingleCrosswalkRow(df_final[i])) =>
                df_final[i].Attach = Num(1000) /\ df_final[i].Detach = Num(650)

\* the scenario pixel with one crosswalk row, in a returned table
C6_Witness ==
    /\ pc = "done"
    /\ \E i \in Rows :
          /\ Scenario(df_final[i])
          /\ SingleCrosswalkRow(df_final[i])
          /\ YieldsOfPixelID(df_final[i].Pixel_ID) = <<Num(500), Num(1000), Num(1500)>>

\* C7: in every row Sum_Insured is 0.4 * Loan_Amount and PayoutAmountBase is
\* PayoutsPercent * Sum_Insured; when the payout fraction is defined,
\* 0 <= PayoutAmountBase <= Sum_Insured.
C7_SumInsuredAndPayoutAmount ==
    Paid =>
        \A i \in Rows :
            LET x == df_final[i]
            IN  /\ Mul(x.Sum_Insured, Num(5)) = Mul(x.Loan_Amount, Num(2))
                /\ x.PayoutAmountBase = Mul(x.PayoutsPercent, x.Sum_Insured)
                /\ ~isna(x.PayoutsPercent) =>
                       Le(Zero, x.PayoutAmountBase) /\ Le(x.PayoutAmountBase, x.Sum_Insured)

\* a returned table with a partial payout, strictly between 0 and Sum_Insured
C7_Witness ==
    /\ pc = "done"
    /\ \E i \in Rows :
          /\ Partial(df_final[i])
          /\ Lt(Zero, df_final[i].PayoutAmountBase)
          /\ Lt(df_final[i].PayoutAmountBase, df_final[i].Sum_Insured)

\* attach and detach of row x are one and the same number
Degenerate(x) == ~isna(x.Attach) /\ x.Attach = x.Detach

\* C8: degenerate thresholds are never fatal.  load_and_merge does not
\* raise; where attach = detach an observation at that value gets a null
\* payout fraction, one above it 0 and one below it 1.
C8_DegenerateThresholdsMasked ==
    /\ pc # "raised"
    /\ Paid =>
          \A i \in Rows :
              LET x == df_final[i]
              IN  Degenerate(x) =>
                      /\ x.Yield_Abs = x.Attach => isna(x.PayoutsPercent)
                      /\ Gt(x.Yield_Abs, x.Attach) => x.PayoutsPercent = Zero
                      /\ Lt(x.Yield_Abs, x.Detach) => x.PayoutsPercent = One

\* C9: PayoutCoV is PayoutSD / PayoutAvg when PayoutAvg is not 0, and 0
\* when PayoutAvg is 0.
C9_CoVDefinition ==
    pc = "done" =>
        \A i \in Rows :
            LET x == df_final[i]
            IN  IF IsZero(x.PayoutAvg) THEN x.PayoutCoV = Root(Zero, Zero)
                ELSE /\ Mul(x.PayoutCoV.coef, x.PayoutAvg) = x.PayoutSD.coef
                     /\ x.PayoutCoV.rad = x.PayoutSD.rad

\* a returned table with a pixel of positive mean and deviation and a pixel
\* whose mean payout is 0
C9_Witness ==
    /\ pc = "done"
    /\ \E i, j \in Rows :
          /\ Lt(Zero, df_final[i].PayoutAvg)
          /\ Lt(Zero, df_final[i].PayoutSD.coef)
          /\ Lt(Zero, df_final[i].PayoutCoV.coef)
          /\ IsZero(df_final[j].PayoutAvg)

\* every payout of the Pixel_ID of row x is null
BlankHistory(x) == dropna(group(df_final, "Pixel_ID", x.Pixel_ID, "PayoutAmountBase")) = <<>>

\* C10: missing data is never reported as zero.  An observation whose yield
\* or threshold yield is missing has a null payout fraction and amount, and
\* a pixel whose payouts are all null has null statistics.
C10_MissingNeverZero ==
    pc = "done" =>
        \A i \in Rows :
            LET x == df_final[i]
            IN  /\ (isna(x.Yield) \/ isna(x.Threshold_Yield)) =>
                       isna(x.PayoutsPercent) /\ isna(x.PayoutAmountBase)
                /\ BlankHistory(x) =>
                       /\ isna(x.PayoutAvg)
                       /\ isna(x.PayoutSD.coef)
                       /\ isna(x.PayoutMin)
                       /\ isna(x.PayoutMax)
                       /\ isna(x.Payout90)
                       /\ isna(x.Payout95)

\* the part of C10 about single observations
C10_MissingObservationIsNull ==
    Paid =>
        \A i \in Rows :
            (isna(df_final[i].Yield) \/ isna(df_final[i].Threshold_Yield)) =>
                isna(df_final[i].PayoutsPercent) /\ isna(df_final[i].PayoutAmountBase)

----------------------------------------------------------------------------
(* build_regional_statistics: region names.                                *)

IsLower(c) == \E u \in DOMAIN UpperCase : UpperCase[u] = c

IsLetter(c) == c \in DOMAIN UpperCase \/ IsLower(c)

\* \w of the regular expressions, over the characters the model uses
IsWordChar(c) == IsLetter(c) \/ c \in {"0", "1", "2", "3", "4", "5", "6", "7", "8", "9", "_"}

upper_char(c) == IF IsLower(c) THEN CHOOSE u \in DOMAIN UpperCase : UpperCase[u] = c ELSE c

\* str.strip(): the whitespace of the model is the space
RECURSIVE lstrip(_)
lstrip(s) == IF s # <<>> /\ Head(s) = " " THEN lstrip(Tail(s)) ELSE s

RECURSIVE rstrip(_)
rstrip(s) == IF s # <<>> /\ s[Len(s)] = " " THEN rstrip(SubSeq(s, 1, Len(s) - 1)) ELSE s

strip(s) == rstrip(lstrip(s))

Txt_region == <<"r", "e", "g", "i", "o", "n">>

\* re.sub(r'\bregion\b', '', s, flags=re.IGNORECASE): the characters of s
\* outside every whole word "region"
remove_region_word(s) ==
    LET starts == {i \in 1..(Len(s) - 5) :
                      /\ lower(SubSeq(s, i, i + 5)) = Txt_region
                      /\ (i = 1 \/ ~IsWordChar(s[i - 1]))
                      /\ (i + 5 = Len(s) \/ ~IsWordChar(s[i + 6]))}
    IN  SelectRows(s, [j \in 1..Len(s) |-> ~\E i \in starts : j \in i..(i + 5)])

\* re.sub(r'\s+', ' ', s): a run of spaces becomes one space
collapse_spaces(s) ==
    SelectRows(s, [j \in 1..Len(s) |-> ~(s[j] = " " /\ j > 1 /\ s[j - 1] = " ")])

\* str.title(): a letter is upper case after a non-letter, lower case after a letter
title(s) ==
    [j \in 1..Len(s) |->
        IF ~IsLetter(s[j]) THEN s[j]
        ELSE IF j = 1 \/ ~IsLetter(s[j - 1]) THEN upper_char(s[j])
        ELSE lower(<<s[j]>>)[1]]

Txt_Rukva == <<"R", "u", "k", "v", "a">>

Txt_Mbeya == <<"M", "b", "e", "y", "a">>

Txt_Mbeya_Rural == Txt_Mbeya \o <<" ", "R", "u", "r", "a", "l">>

Txt_Kilimanjaro == <<"K", "i", "l", "i", "m", "a", "n", "j", "a", "r", "o">>

Txt_Kilimanjaro_Region == Txt_Kilimanjaro \o <<" ", "R", "e", "g", "i", "o", "n">>

\* lines 249-263; the text of a Region cell is never null after astype(str)
normalize_region_name(s) ==
    LET t == title(collapse_spaces(remove_region_word(strip(s))))
    IN  IF t = Txt_Rukva THEN Txt_Rukwa
        ELSE IF t = Txt_Mbeya_Rural THEN Txt_Mbeya
        ELSE IF t = Txt_Kilimanjaro_Region THEN Txt_Kilimanjaro
        ELSE t

Txt_Dar_Es_Salaam == <<"D", "a", "r", " ", "E", "s", " ", "S", "a", "l", "a", "a", "m">>

\* REGION_GROUPS, lines 273-282: the zones and regions of tanzania_zones in
\* the same order, with "Dar Es Salaam" spelled with a capital E
REGION_GROUPS ==
    [z \in 1..Len(tanzania_zones) |->
        <<tanzania_zones[z][1],
          [k \in 1..Len(tanzania_zones[z][2]) |->
              IF lower(tanzania_zones[z][2][k]) = lower(Txt_Dar_Es_Salaam)
              THEN Txt_Dar_Es_Salaam ELSE tanzania_zones[z][2][k]]>>]

----------------------------------------------------------------------------
(* build_regional_statistics: the wide table of regions, areas and overall. *)

\* Python's None, the empty cell of the wide table: the model has one null
None == NaN

RECURSIVE SetToSeq(_)
SetToSeq(S) ==
    IF S = {} THEN <<>>
    ELSE LET x == CHOOSE y \in S : TRUE IN <<x>> \o SetToSeq(S \ {x})

\* line 268: the Region column normalised
with_normalized_regions(df) ==
    [i \in 1..Len(df) |-> [df[i] EXCEPT !.Region = normalize_region_name(@)]]

\* line 285: the lower-cased region names of the data
region_available_lower(df) == {lower(df[i].Region) : i \in 1..Len(df)}

\* lines 290-295: the regions of zone z that occur in the data
existing(df, z) ==
    LET regions == REGION_GROUPS[z][2]
    IN  SelectRows(regions,
            [k \in 1..Len(regions) |-> lower(regions[k]) \in region_available_lower(df)])

\* line 308: the region names of the data, each once (their order matters
\* to the rounding of the floating-point sum only)
all_regions_in_data(df) == SetToSeq({df[i].Region : i \in 1..Len(df)})

\* lines 286-309: (label, type, area, member_regions) of every column
column_meta(df) ==
    Concat([z \in 1..Len(REGION_GROUPS) |->
        LET area == REGION_GROUPS[z][1]
            ex   == existing(df, z)
        IN  [k \in 1..Len(ex) |->
                [label |-> ex[k], type |-> "region", area |-> area,
                 member_regions |-> <<ex[k]>>]]
            \o (IF ex = <<>> THEN <<>>
                ELSE <<[label |-> <<area, "Total">>, type |-> "group_total", area |-> area,
                        member_regions |-> ex]>>)])
    \o <<[label |-> <<"Overall Total">>, type |-> "overall_total", area |-> "None",
          member_regions |-> all_regions_in_data(df)]>>

\* line 320: drop_duplicates(subset='Pixel_ID') keeps the first row of each pixel
df_pixels(df) ==
    SelectRows(df, [i \in 1..Len(df) |-> \A j \in 1..(i - 1) : df[j].Pixel_ID # df[i].Pixel_ID])

\* line 325
pixel_is_blank(df, k) == dropna(group(df, "Pixel_ID", k, "PayoutAmountBase")) = <<>>

\* lines 326-328
pixel_is_zero(df, k) ==
    LET g == group(df, "Pixel_ID", k, "PayoutAmountBase")
    IN  /\ ~pixel_is_blank(df, k)
        /\ IsZero(SumSeq([i \in 1..Len(g) |-> fillna0(g[i])]))

\* the payouts of the rows of region r and year y
region_year_payouts(df, r, y) ==
    LET g == SelectRows(df, [i \in 1..Len(df) |-> df[i].Region = r /\ df[i].Year = y])
    IN  [i \in 1..Len(g) |-> g[i].PayoutAmountBase]

\* lines 336-339: groupby('Year').sum(min_count=1) of one region; null when
\* the year holds no non-null payout
annual_region_sum(df, r, y) ==
    LET v == dropna(region_year_payouts(df, r, y))
    IN  IF v = <<>> THEN NaN ELSE SumSeq(v)

\* line 340: the non-null years of the data, ascending
years(df) == sorted(SetToSeq({df[i].Year : i \in 1..Len(df)} \ {NaN}))

\* lines 342-346: a column of the first row of each pixel of the regions, summed
sum_of_pixels(df, regions, col) ==
    LET px == df_pixels(df)
        g  == SelectRows(px, [i \in 1..Len(px) |-> \E k \in 1..Len(regions) : px[i].Region = regions[k]])
    IN  SumSeq(dropna([i \in 1..Len(g) |-> g[i][col]]))

\* compute_year_value that reports a year without data as 0
compute_year_value_zero(df, regions, year) ==
    LET val  == [k \in 1..Len(regions) |->
                    IF region_year_payouts(df, regions[k], year) # <<>>
                    THEN annual_region_sum(df, regions[k], year) ELSE NaN]
    IN  SumSeq(dropna(val))

\* compute_year_value that has no total unless every region has data
compute_year_value_all_regions(df, regions, year) ==
    LET val  == [k \in 1..Len(regions) |->
                    IF region_year_payouts(df, regions[k], year) # <<>>
                    THEN annual_region_sum(df, regions[k], year) ELSE NaN]
    IN  IF \E k \in 1..Len(val) : isna(val[k]) THEN None ELSE SumSeq(val)

\* lines 348-358
compute_year_value(df, regions, year) ==
    LET val  == [k \in 1..Len(regions) |->
                    IF region_year_payouts(df, regions[k], year) # <<>>
                    THEN annual_region_sum(df, regions[k], year) ELSE NaN]
        data == dropna(val)
    IN  IF data = <<>> THEN None ELSE SumSeq(data)

\* the Pixel_IDs of the regions (line 361)
pixels_of(df, regions) ==
    LET px == df_pixels(df)
    IN  {px[i].Pixel_ID : i \in {j \in 1..Len(px) : \E k \in 1..Len(regions) : px[j].Region = regions[k]}}

\* compute_pixel_counts that counts every zero-sum pixel as zero, the blank
\* ones included
compute_pixel_counts_sum_only(df, regions) ==
    LET pix     == pixels_of(df, regions)
        n_blank == Cardinality({k \in pix : pixel_is_blank(df, k)})
        n_zero  == Cardinality({k \in pix :
                       LET g == group(df, "Pixel_ID", k, "PayoutAmountBase")
                       IN  IsZero(SumSeq([i \in 1..Len(g) |-> fillna0(g[i])]))})
    IN  [n_pixels |-> Cardinality(pix), n_zero_blank |-> n_blank + n_zero,
         n_blank |-> n_blank, n_zero |-> n_zero]

\* lines 360-368
compute_pixel_counts(df, regions) ==
    LET pix     == pixels_of(df, regions)
        n_blank == Cardinality({k \in pix : pixel_is_blank(df, k)})
        n_zero  == Cardinality({k \in pix : pixel_is_zero(df, k)})
    IN  IF pix = {} THEN [n_pixels |-> 0, n_zero_blank |-> 0, n_blank |-> 0, n_zero |-> 0]
        ELSE [n_pixels |-> Cardinality(pix), n_zero_blank |-> n_blank + n_zero,
              n_blank |-> n_blank, n_zero |-> n_zero]

\* lines 388-392: the annual totals of the years with data, in year order
annual_totals(df, regions) ==
    LET ys == years(df)
    IN  dropna([i \in 1..Len(ys) |-> compute_year_value(df, regions, ys[i])])

\* compute_area_level_distribution with the population standard deviation
\* (n in the denominator)
compute_area_level_distribution_population(df, regions) ==
    LET totals == annual_totals(df, regions)
        n      == Len(totals)
        sample == std(totals)
    IN  IF n = 0
        THEN [avg |-> None, sd |-> Root(None, None), min |-> None, max |-> None,
              p90 |-> None, p95 |-> None]
        ELSE [avg |-> Div(SumSeq(totals), Num(n)),
              sd  |-> IF n > 1 THEN Root(sample.coef, Mul(sample.rad, Rat(n - 1, n)))
                      ELSE Root(Zero, Zero),
              min |-> MinSeq(totals),
              max |-> MaxSeq(totals),
              p90 |-> quantile(totals, Rat(9, 10)),
              p95 |-> quantile(totals, Rat(19, 20))]

\* lines 381-413: sd is sqrt(sum((x - mean)^2) / (n - 1)) for n > 1, else 0
compute_area_level_distribution(df, regions) ==
    LET totals == annual_totals(df, regions)
        n      == Len(totals)
    IN  IF n = 0
        THEN [avg |-> None, sd |-> Root(None, None), min |-> None, max |-> None,
              p90 |-> None, p95 |-> None]
        ELSE [avg |-> Div(SumSeq(totals), Num(n)),
              sd  |-> IF n > 1 THEN std(totals) ELSE Root(Zero, Zero),
              min |-> MinSeq(totals),
              max |-> MaxSeq(totals),
              p90 |-> quantile(totals, Rat(9, 10)),
              p95 |-> quantile(totals, Rat(19, 20))]

\* compute_area_cov with 0 in place of None
compute_area_cov_zero(df, regions) ==
    LET dist == compute_area_level_distribution(df, regions)
    IN  IF isna(dist.avg) \/ isna(dist.sd.coef) \/ IsZero(dist.avg) THEN Root(Zero, Zero)
        ELSE DivRoot(dist.sd, dist.avg)

\* lines 415-421
compute_area_cov(df, regions) ==
    LET dist == compute_area_level_distribution(df, regions)
    IN  IF isna(dist.avg) \/ isna(dist.sd.coef) \/ IsZero(dist.avg) THEN Root(None, None)
        ELSE DivRoot(dist.sd, dist.avg)

\* the Python expression  n or None  of lines 464-466
or_none(n) == IF n = 0 THEN None ELSE Num(n)

\* lines 431-468 and 490: the cells of one column of df_wide_numeric (the
\* row "Average non-zero/blank pixel CoV" is not modelled)
wide_column(df, m) ==
    LET ys   == years(df)
        dist == compute_area_level_distribution(df, m.member_regions)
        cnt  == compute_pixel_counts(df, m.member_regions)
    IN  [label       |-> m.label,
         type        |-> m.type,
         Loan_amounts |-> sum_of_pixels(df, m.member_regions, "Loan_Amount"),
         Sum_insured |-> sum_of_pixels(df, m.member_regions, "Sum_Insured"),
         Area        |-> IF m.type = "overall_total" THEN <<"Overall Total">> ELSE <<m.area>>,
         Region      |-> IF m.type = "region" THEN m.label
                         ELSE IF m.type = "group_total" THEN <<"Total">>
                         ELSE <<"Overall Total">>,
         Year        |-> [y \in {ys[i] : i \in 1..Len(ys)} |->
                            compute_year_value(df, m.member_regions, y)],
         Average_Payout |-> dist.avg,
         SD          |-> dist.sd,
         Min         |-> dist.min,
         Max         |-> dist.max,
         P90         |-> dist.p90,
         P95         |-> dist.p95,
         Number_of_Pixels |-> Num(cnt.n_pixels),
         Number_of_Zero_and_Blank_Pixels |-> or_none(cnt.n_zero_blank),
         Number_of_Blank_Pixels |-> or_none(cnt.n_blank),
         Number_of_Zero_Pixel |-> or_none(cnt.n_zero),
         Area_CoV    |-> compute_area_cov(df, m.member_regions)]

\* build_regional_statistics: df_wide_numeric, column by column
build_regional_statistics(df_in) ==
    LET df   == with_normalized_regions(df_in)
        meta == column_meta(df)
    IN  [c \in 1..Len(meta) |-> wide_column(df, meta[c])]

----------------------------------------------------------------------------
(* build_regional_statistics applied to a table of yearly payouts.         *)

\* years of the payout table
MaxRegYears == 2

Txt_arusha_lower == lower(Txt_Arusha)

Txt_TANGA == <<" ", "T", "A", "N", "G", "A">>

Txt_Rukwa_Region == Txt_Rukwa \o <<" ", "R", "e", "g", "i", "o", "n">>

\* the Region cell of each Pixel_ID of the table: two pixels of Arusha, one
\* of Tanga, and one of Rukwa under either of two spellings
RegionalRegions ==
    {<<Txt_Arusha, Txt_arusha_lower, Txt_TANGA, r>> : r \in {Txt_Rukwa, Txt_Rukwa_Region}}

\* the payouts a pixel may have in a year: none, zero or the sum insured
RegionalPayouts(k) == IF k = 4 THEN {NaN, Num(400)} ELSE {NaN, Zero, Num(400)}

\* the rows of a table as load_and_merge returns it: one row per pixel and year
payout_table(reg, pay) ==
    Concat([k \in 1..Len(reg) |->
        [i \in 1..MaxRegYears |->
            [Pixel_ID         |-> k,
             Region           |-> reg[k],
             Year             |-> Num(start_year + i - 1),
             Loan_Amount      |-> Num(1000),
             Sum_Insured      |-> sum_insured(Num(1000)),
             PayoutAmountBase |-> pay[k][i]]]])

InitRegional ==
    /\ df_vill = <<>>
    /\ df_thresh = <<>>
    /\ df_ts = <<>>
    /\ region_map = <<>>
    /\ \E reg \in RegionalRegions :
       \E pay \in [1..4 -> [1..MaxRegYears -> {NaN, Zero, Num(400)}]] :
          /\ \A k \in 1..4 : \A i \in 1..MaxRegYears : pay[k][i] \in RegionalPayouts(k)
          /\ df_final = payout_table(reg, pay)
    /\ pc = "done"
    /\ OthersIdle

\* df_regional, df_regional_fmt = build_regional_statistics(df_final)
BuildRegionalStatistics ==
    /\ pc = "done"
    /\ regional' = build_regional_statistics(df_final)
    /\ pc' = "regional"
    /\ UNCHANGED <<df_vill, df_thresh, df_ts, region_map, df_final>>
    /\ UNCHANGED helper_vars

NextRegional == BuildRegionalStatistics

SpecRegional == InitRegional /\ [][NextRegional]_vars

----------------------------------------------------------------------------
(* Properties of the regional table.                                       *)

RegionalBuilt == pc = "regional"

Columns == 1..Len(regional)

\* the regions of an area, by name
AreaRegions(area) ==
    UNION {{REGION_GROUPS[z][2][k] : k \in 1..Len(REGION_GROUPS[z][2])} :
              z \in {j \in 1..Len(REGION_GROUPS) : REGION_GROUPS[j][1] = area}}

\* row i of the payout table belongs to the group of column col: the column's
\* region, a region of the column's area, or any region
InGroup(col, i) ==
    LET r == normalize_region_name(df_final[i].Region)
    IN  CASE col.type = "region"      -> r = col.label
          [] col.type = "group_total" -> r \in AreaRegions(col.Area[1])
          [] OTHER                    -> TRUE

\* the non-null payouts of the group of column col in year y
GroupPayouts(col, y) ==
    dropna(SelectRows([i \in Rows |-> df_final[i].PayoutAmountBase],
                      [i \in Rows |-> InGroup(col, i) /\ df_final[i].Year = y]))

TableYears == {df_final[i].Year : i \in Rows}

\* C11: in every column (a region, an area total, the overall total) the
\* cell of year Y is the sum of the non-null payouts of the group's pixels in
\* Y, and is None when the group has no non-null payout in Y.
C11_AnnualTotal ==
    RegionalBuilt =>
        \A c \in Columns : \A y \in TableYears :
            regional[c].Year[y] =
                IF GroupPayouts(regional[c], y) = <<>> THEN None
                ELSE SumSeq(GroupPayouts(regional[c], y))

\* an area total that sums two pixels and skips a null one in one year, and
\* has no data in the other year
C11_Witness ==
    /\ RegionalBuilt
    /\ \E c \in Columns : \E y1, y2 \in TableYears :
          /\ regional[c].type = "group_total"
          /\ regional[c].Year[y1] = Num(800)
          /\ \E i \in Rows : /\ InGroup(regional[c], i)
                             /\ df_final[i].Year = y1
                             /\ isna(df_final[i].PayoutAmountBase)
          /\ regional[c].Year[y2] = None

\* the cells of year y in the region columns of the area of column g
RegionCells(g, y) ==
    LET cols == SelectRows(regional,
                    [c \in Columns |-> regional[c].type = "region" /\ regional[c].Area = g.Area])
    IN  [c \in 1..Len(cols) |-> cols[c].Year[y]]

\* C12: in every year the cell of an area total is the sum of the cells of
\* the area's region columns that have data; it is not null when at least
\* one of them has data.
C12_AreaTotalIsSumOfRegions ==
    RegionalBuilt =>
        \A c \in Columns : \A y \in TableYears :
            (regional[c].type = "group_total" /\ dropna(RegionCells(regional[c], y)) # <<>>) =>
                /\ ~isna(regional[c].Year[y])
                /\ regional[c].Year[y] = SumSeq(dropna(RegionCells(regional[c], y)))

\* an area with two region columns: in one year both have data, in the other
\* year only one has
C12_Witness ==
    /\ RegionalBuilt
    /\ \E c \in Columns : \E y1, y2 \in TableYears :
          /\ regional[c].type = "group_total"
          /\ Len(RegionCells(regional[c], y1)) = 2
          /\ Len(dropna(RegionCells(regional[c], y1))) = 2
          /\ regional[c].Year[y1] = Num(1200)
          /\ Len(dropna(RegionCells(regional[c], y2))) = 1
          /\ regional[c].Year[y2] = Num(400)

\* the non-null year cells of column col, in year order
ColumnTotals(col) ==
    LET ys == sorted(SetToSeq(DOMAIN col.Year))
    IN  dropna([i \in 1..Len(ys) |-> col.Year[ys[i]]])

\* the sum of the squared deviations of the values of t from m
SumSquares(t, m) == SumSeq([i \in 1..Len(t) |-> Mul(Sub(t[i], m), Sub(t[i], m))])

\* C13: Average Payout, SD, Min and Max of a column are those of the list of
\* its non-null annual totals (zero totals included, years without data
\* skipped): the average is their mean, Min and Max their extremes, SD is 0
\* for one total and, for n > 1 totals, SD^2 * (n - 1) is the sum of their
\* squared deviations from the mean.
C13_StatisticsOverAnnualTotals ==
    RegionalBuilt =>
        \A c \in Columns :
            LET col == regional[c]
                t   == ColumnTotals(col)
                n   == Len(t)
            IN  n >= 1 =>
                  /\ Mul(col.Average_Payout, Num(n)) = SumSeq(t)
                  /\ \E i \in 1..n : col.Min = t[i]
                  /\ \A i \in 1..n : Le(col.Min, t[i])
                  /\ \E i \in 1..n : col.Max = t[i]
                  /\ \A i \in 1..n : Le(t[i], col.Max)
                  /\ n = 1 => col.SD = Root(Zero, Zero)
                  /\ n > 1 => Mul(Mul(Mul(col.SD.coef, col.SD.coef), col.SD.rad), Num(n - 1))
                                = SumSquares(t, col.Average_Payout)

\* a column of two pixels with the totals 800 and 0 (average 400, SD
\* 400 * sqrt(2), a zero year counted), and a column with one total only
C13_Witness ==
    /\ RegionalBuilt
    /\ \E c \in Columns :
          /\ regional[c].type = "region"
          /\ ColumnTotals(regional[c]) = <<Num(800), Zero>>
          /\ regional[c].Average_Payout = Num(400)
          /\ regional[c].SD = Root(Num(400), Num(2))
          /\ regional[c].Min = Zero
    /\ \E c \in Columns :
          /\ Len(ColumnTotals(regional[c])) = 1
          /\ regional[c].SD = Root(Zero, Zero)

\* the pixels of the group of column col, and their payout histories
GroupPixels(col) == {df_final[i].Pixel_ID : i \in {j \in Rows : InGroup(col, j)}}

History(k) == group(df_final, "Pixel_ID", k, "PayoutAmountBase")

BlankPixels(col) == {k \in GroupPixels(col) : \A i \in 1..Len(History(k)) : isna(History(k)[i])}

ZeroPixels(col) ==
    {k \in GroupPixels(col) :
        /\ \E i \in 1..Len(History(k)) : ~isna(History(k)[i])
        /\ IsZero(SumSeq(dropna(History(k))))}

\* a counter cell read as a number: a count of 0 is stored as None (n or None)
Counter(cell) == IF isna(cell) THEN 0 ELSE cell.n

\* C14: in every column the blank counter is the number of the group's
\* pixels whose payouts are all null, the zero counter the number of its
\* pixels with a non-null payout whose payouts sum to zero, no pixel is in
\* both, and the combined counter is blank + zero and at most the number of
\* pixels of the group.
C14_PixelCounters ==
    RegionalBuilt =>
        \A c \in Columns :
            LET col == regional[c]
            IN  /\ Counter(col.Number_of_Pixels) = Cardinality(GroupPixels(col))
                /\ Counter(col.Number_of_Blank_Pixels) = Cardinality(BlankPixels(col))
                /\ Counter(col.Number_of_Zero_Pixel) = Cardinality(ZeroPixels(col))
                /\ BlankPixels(col) \cap ZeroPixels(col) = {}
                /\ Counter(col.Number_of_Zero_and_Blank_Pixels)
                     = Counter(col.Number_of_Blank_Pixels) + Counter(col.Number_of_Zero_Pixel)
                /\ Counter(col.Number_of_Zero_and_Blank_Pixels) <= Counter(col.Number_of_Pixels)

\* a column of three pixels: one blank, one zero, one with payouts
C14_Witness ==
    /\ RegionalBuilt
    /\ \E c \in Columns :
          /\ regional[c].Number_of_Pixels = Num(3)
          /\ regional[c].Number_of_Blank_Pixels = Num(1)
          /\ regional[c].Number_of_Zero_Pixel = Num(1)
          /\ regional[c].Number_of_Zero_and_Blank_Pixels = Num(2)

----------------------------------------------------------------------------
(* The two region -> zone mappings, applied to a region name.              *)

\* TANZANIA_ZONES of builder_model_descriptions_v6.py: the same zones and
\* regions, in the same order, as tanzania_zones of load_and_merge
TANZANIA_ZONES == tanzania_zones

\* the two loops of _area_from_region over the (area, region) pairs left
RECURSIVE first_area(_, _)
first_area(region_low, entries) ==
    IF entries = <<>> THEN "Unknown"
    ELSE LET rl == lower(Head(entries).reg)
         IN  IF region_low = rl \/ In(region_low, rl) \/ In(rl, region_low)
             THEN Head(entries).area
             ELSE first_area(region_low, Tail(entries))

\* _area_from_region
area_from_region(r) ==
    first_area(lower(r),
        Concat([z \in 1..Len(TANZANIA_ZONES) |->
                  [k \in 1..Len(TANZANIA_ZONES[z][2]) |->
                     [area |-> TANZANIA_ZONES[z][1], reg |-> TANZANIA_ZONES[z][2][k]]]]))

Txt_Nairobi == <<"N", "a", "i", "r", "o", "b", "i">>

Txt_Songea == <<"S", "o", "n", "g", "e", "a">>

\* the region names tried: every name of the table as written, in lower
\* case, with " Region" appended, its first three letters and all but its
\* first letter; two names of no zone; the empty name; the two names that
\* normalize_region_name corrects
RegionInputs ==
    UNION {{ZoneEntries[i].reg,
            lower(ZoneEntries[i].reg),
            ZoneEntries[i].reg \o <<" ", "R", "e", "g", "i", "o", "n">>,
            SubSeq(ZoneEntries[i].reg, 1, 3),
            SubSeq(ZoneEntries[i].reg, 2, Len(ZoneEntries[i].reg))} : i \in 1..Len(ZoneEntries)}
    \cup {Txt_Nairobi, Txt_Songea, <<>>, Txt_Rukva, Txt_Mbeya_Rural}

InitArea ==
    /\ PipelineIdle
    /\ regional = <<>>
    /\ YearIdle
    /\ SheetIdle
    /\ ReportIdle
    /\ region_in \in RegionInputs
    /\ area_out = <<>>

\* df_final["Region"].apply(map_region_to_area), one cell
MapRegionToArea ==
    /\ area_out = <<>>
    /\ area_out' = <<"map_region_to_area", map_region_to_area(region_in)>>
    /\ UNCHANGED <<pipeline_vars, regional, region_in, year_vars, sheet_vars, report_vars>>

\* meta["region"].apply(_area_from_region), one cell
AreaFromRegion ==
    /\ area_out = <<>>
    /\ area_out' = <<"_area_from_region", area_from_region(region_in)>>
    /\ UNCHANGED <<pipeline_vars, regional, region_in, year_vars, sheet_vars, report_vars>>

\* lines 265-304 of build_regional_statistics on a table with the one
\* region: the area of the region column the table gets, "None" when the
\* region is a member of the overall total only
regional_area(region) ==
    LET df   == with_normalized_regions(<<[Region |-> region]>>)
        cols == SelectRows(column_meta(df),
                    [k \in 1..Len(column_meta(df)) |-> column_meta(df)[k].type = "region"])
    IN  IF cols = <<>> THEN "None" ELSE cols[1].area

\* load_and_merge and build_regional_statistics on the same region name:
\* the Area of its pixels and the area of its column
AssignZones ==
    /\ area_out = <<>>
    /\ area_out' = <<"zones", map_region_to_area(region_in), regional_area(region_in)>>
    /\ UNCHANGED <<pipeline_vars, regional, region_in, year_vars, sheet_vars, report_vars>>

NextArea ==
    \/ MapRegionToArea
    \/ AreaFromRegion
    \/ AssignZones

SpecArea == InitArea /\ [][NextArea]_vars

\* entry i of the table matches the region name: equal, containing or
\* contained, lower case compared
EntryMatches(i) ==
    LET r   == lower(region_in)
        reg == lower(ZoneEntries[i].reg)
    IN  \/ r = reg
        \/ \E a \in 0..(Len(reg) - Len(r)) : \A b \in 1..Len(r) : reg[a + b] = r[b]
        \/ \E a \in 0..(Len(r) - Len(reg)) : \A b \in 1..Len(reg) : r[a + b] = reg[b]

\* C15: both mappings return the zone of the first entry of the table, in
\* table order, that matches the region name, and "Unknown" exactly when no
\* entry matches.
C15_FirstMatchingZone ==
    area_out # <<>> =>
        /\ area_out[2] = "Unknown" <=> ~\E i \in 1..Len(ZoneEntries) : EntryMatches(i)
        /\ area_out[2] # "Unknown" =>
              \E i \in 1..Len(ZoneEntries) :
                  /\ EntryMatches(i)
                  /\ \A j \in 1..(i - 1) : ~EntryMatches(j)
                  /\ area_out[2] = ZoneEntries[i].area

\* a name that matches entries of two zones by containment and gets the zone
\* of the earlier one
C15_Witness ==
    /\ area_out # <<>>
    /\ \E i, j \in 1..Len(ZoneEntries) :
          /\ i < j
          /\ EntryMatches(i)
          /\ EntryMatches(j)
          /\ lower(region_in) # lower(ZoneEntries[i].reg)
          /\ ZoneEntries[i].area # ZoneEntries[j].area
          /\ area_out[2] = ZoneEntries[i].area

----------------------------------------------------------------------------
(* The merges of load_and_merge on inputs whose pixels differ: a crosswalk *)
(* pixel without series or threshold row, a series pixel without crosswalk *)
(* row.                                                                    *)

\* a pixel number that is no column of the time series
StrayPixel == 2

\* sequences over S of length at most n
RECURSIVE SeqsUpTo(_, _)
SeqsUpTo(S, n) ==
    IF n = 0 THEN {<<>>}
    ELSE SeqsUpTo(S, n - 1) \cup {Append(q, x) : q \in {r \in SeqsUpTo(S, n - 1) : Len(r) = n - 1}, x \in S}

InitMerge ==
    /\ \E px \in SeqsUpTo(Pixels \cup {StrayPixel}, MaxVill) :
          df_vill = [i \in 1..Len(px) |->
                        [Region |-> IF px[i] \in Pixels THEN RegionOfPixel[px[i]] ELSE Txt_Arusha,
                         Pixel  |-> Num(px[i])]]
    /\ \E T \in SUBSET Pixels :
          df_thresh = SelectRows([k \in 1..Len(TsColumns) |->
                                     [Pixel |-> Num(TsColumns[k]), Threshold_Yield |-> Num(1000)]],
                                 [k \in 1..Len(TsColumns) |-> TsColumns[k] \in T])
    /\ df_ts \in [1..MaxYears -> [Pixels -> {NaN, One}]]
    /\ region_map = <<>>
    /\ df_final = <<>>
    /\ pc = "start"
    /\ OthersIdle

NextMerge == MergeInputs

SpecMerge == InitMerge /\ [][NextMerge]_vars

Merged == pc = "merged"

\* the rows of the merged table of crosswalk row j (its FarmerID) and year y
MergedRows(j, y) == {i \in Rows : df_final[i].FarmerID = j /\ df_final[i].Year = y}

\* the threshold of pixel p in the metadata, null without a row
ThresholdOf(p) ==
    IF \E k \in 1..Len(df_thresh) : df_thresh[k].Pixel = p
    THEN df_thresh[CHOOSE k \in 1..Len(df_thresh) : df_thresh[k].Pixel = p].Threshold_Yield
    ELSE NaN

\* C16 as stated: every (pixel, year) of the time series has a row in the
\* merged table, with or without metadata.
C16_EverySeriesCellKept ==
    Merged =>
        \A p \in Pixels : \A y \in 1..Len(df_ts) :
            \E i \in Rows :
                /\ df_final[i].Pixel = Num(p)
                /\ df_final[i].Year = Num(start_year + y - 1)
                /\ df_final[i].Yield = df_ts[y][p]

\* C16 amended: every (pixel, year) of the time series whose pixel has a
\* crosswalk row appears once per crosswalk row of the pixel, with the
\* threshold of the pixel or null when the threshold metadata has no row
\* for it; a pixel of the time series without crosswalk row has no row.
C16_CrosswalkSeriesCellsKept ==
    Merged =>
        \A p \in Pixels : \A y \in 1..Len(df_ts) :
            /\ \A j \in 1..Len(df_vill) :
                  df_vill[j].Pixel = Num(p) =>
                      /\ Cardinality(MergedRows(j, Num(start_year + y - 1))) = 1
                      /\ \A i \in MergedRows(j, Num(start_year + y - 1)) :
                            /\ df_final[i].Pixel = Num(p)
                            /\ df_final[i].Yield = df_ts[y][p]
                            /\ df_final[i].Threshold_Yield = ThresholdOf(Num(p))
            /\ (~\E j \in 1..Len(df_vill) : df_vill[j].Pixel = Num(p)) =>
                  ~\E i \in Rows : df_final[i].Pixel = Num(p)

\* a crosswalk pixel without threshold row keeps its years with a null
\* threshold, while a pixel of the series without crosswalk row is absent
C16_Witness ==
    /\ Merged
    /\ \E i \in Rows :
          /\ ~isna(df_final[i].Year)
          /\ ~isna(df_final[i].Yield)
          /\ isna(df_final[i].Threshold_Yield)
          /\ ~\E k \in 1..Len(df_thresh) : df_thresh[k].Pixel = df_final[i].Pixel
    /\ \E p \in Pixels : ~\E i \in Rows : df_final[i].Pixel = Num(p)

----------------------------------------------------------------------------
(* _find_year_column applied to a table.                                   *)

\* the float inf of a numeric column; it is no null, although its d is 0
Infinity == [n |-> 1, d |-> 0]

IsInf(x) == x.d = 0 /\ x.n # 0

\* astype(int) of a finite number: truncation towards zero
to_int(x) == IF x.n >= 0 THEN x.n \div x.d ELSE -((-x.n) \div x.d)

\* line 39 raises on a column that holds an infinite value (astype(int))
column_raises(cells) == \E i \in 1..Len(cells) : IsInf(cells[i])

\* lines 39-40: the share of the numeric values of a column, as integers,
\* that lie in 1981..2022; null for a column without numeric values
pct_in_range(cells) ==
    LET vals == SelectRows(cells, [i \in 1..Len(cells) |-> ~isna(cells[i])])
        hits == {i \in 1..Len(vals) : to_int(vals[i]) >= 1981 /\ to_int(vals[i]) <= 2022}
    IN  IF vals = <<>> THEN NaN ELSE Rat(Cardinality(hits), Len(vals))

\* year_column_index with the test  pct_in_range >= 0.8
RECURSIVE year_column_index_at_least(_, _)
year_column_index_at_least(table, c) ==
    IF c > Len(table) THEN 0
    ELSE IF ~column_raises(table[c].cells)
            /\ ~isna(pct_in_range(table[c].cells))
            /\ Le(Rat(4, 5), pct_in_range(table[c].cells))
         THEN c
         ELSE year_column_index_at_least(table, c + 1)

\* lines 37-45: the position of the first column from c on that passes the
\* test  pct_in_range > 0.8  without raising; 0 when there is none
RECURSIVE year_column_index(_, _)
year_column_index(table, c) ==
    IF c > Len(table) THEN 0
    ELSE IF ~column_raises(table[c].cells)
            /\ ~isna(pct_in_range(table[c].cells))
            /\ Gt(pct_in_range(table[c].cells), Rat(4, 5))
         THEN c
         ELSE year_column_index(table, c + 1)

\* _find_year_column: the name of that column, or None
find_year_column(table) ==
    IF year_column_index(table, 1) = 0 THEN "None"
    ELSE table[year_column_index(table, 1)].name

\* rows of the table given to _find_year_column
MaxTsRows == 5

\* the cells of a column: text (null once coerced), years inside, outside
\* and, before truncation, above the range, and an infinite value
YearCells == {NaN, Num(1980), Num(1981), Rat(4045, 2), Num(2023), Infinity}

\* the position of a cell value in the order in which the columns list them
CellRank(x) ==
    IF x = NaN THEN 0
    ELSE IF x = Infinity THEN 5
    ELSE IF x = Num(1980) THEN 1
    ELSE IF x = Num(1981) THEN 2
    ELSE IF x = Rat(4045, 2) THEN 3
    ELSE 4

\* the second column: all in range, four of five in range, three of four
\* numeric values in range, nothing in range
OtherColumns ==
    {[i \in 1..MaxTsRows |-> Num(1981)],
     [i \in 1..MaxTsRows |-> IF i = 1 THEN Num(2023) ELSE Num(1981)],
     [i \in 1..MaxTsRows |-> IF i = 1 THEN NaN ELSE IF i = 2 THEN Num(1980) ELSE Num(2022)],
     [i \in 1..MaxTsRows |-> One]}

InitYear ==
    /\ PipelineIdle
    /\ regional = <<>>
    /\ AreaIdle
    /\ SheetIdle
    /\ ReportIdle
    /\ \E a \in [1..MaxTsRows -> YearCells] : \E b \in OtherColumns : \E first \in BOOLEAN :
          /\ \A i \in 1..(MaxTsRows - 1) : CellRank(a[i]) <= CellRank(a[i + 1])
          /\ ts_table = IF first
                        THEN <<[name |-> "Year", cells |-> a], [name |-> "pixel 0", cells |-> b]>>
                        ELSE <<[name |-> "pixel 0", cells |-> b], [name |-> "Year", cells |-> a]>>
    /\ year_col = "?"

\* year_col = _find_year_column(df_ts)
FindYearColumn ==
    /\ year_col = "?"
    /\ year_col' = find_year_column(ts_table)
    /\ UNCHANGED <<pipeline_vars, regional, area_vars, ts_table, sheet_vars, report_vars>>

NextYear == FindYearColumn

SpecYear == InitYear /\ [][NextYear]_vars

\* the cells of column c that hold a number
NumericCells(c) == {i \in 1..Len(ts_table[c].cells) : ts_table[c].cells[i] # NaN}

\* the numeric cells of column c whose value lies in [1981, 2022]
CellsInRange(c) ==
    {i \in NumericCells(c) : LET x == ts_table[c].cells[i]
                             IN  x.d > 0 /\ 1981 * x.d <= x.n /\ x.n <= 2022 * x.d}

\* the numeric cells of column c whose integer part lies in [1981, 2022]
CellsTruncatedInRange(c) ==
    {i \in NumericCells(c) : LET x == ts_table[c].cells[i]
                             IN  x.d > 0 /\ 1981 * x.d <= x.n /\ x.n < 2023 * x.d}

HasInfinite(c) == \E i \in 1..Len(ts_table[c].cells) : ts_table[c].cells[i] = Infinity

AtLeast80(c) ==
    /\ NumericCells(c) # {}
    /\ 5 * Cardinality(CellsInRange(c)) >= 4 * Cardinality(NumericCells(c))

MoreThan80(c) ==
    /\ ~HasInfinite(c)
    /\ 5 * Cardinality(CellsTruncatedInRange(c)) > 4 * Cardinality(NumericCells(c))

YearColumnCalled == year_col # "?"

\* C17 as stated: the year column is the first column, in column order, of
\* which at least 80% of the numeric values lie in [1981, 2022], a column
\* with exactly 80% in range included; None when no column is such.
C17_AtLeast80Selected ==
    YearColumnCalled =>
        /\ \A c \in 1..Len(ts_table) :
              (AtLeast80(c) /\ \A b \in 1..(c - 1) : ~AtLeast80(b))
                  => year_col = ts_table[c].name
        /\ (\A c \in 1..Len(ts_table) : ~AtLeast80(c)) => year_col = "None"

\* C17, amended: the year column is the first column, in column order, of
\* which more than 80% of the numeric values, cut to integers, lie in
\* [1981, 2022] and which holds no infinite value; a column with exactly 80%
\* in range is not selected; None when no column is such.
C17_MoreThan80Selected ==
    YearColumnCalled =>
        /\ \A c \in 1..Len(ts_table) :
              (MoreThan80(c) /\ \A b \in 1..(c - 1) : ~MoreThan80(b))
                  => year_col = ts_table[c].name
        /\ (\A c \in 1..Len(ts_table) : ~MoreThan80(c)) => year_col = "None"

\* a first column with exactly four of five numeric values in range was
\* passed over for the second column
C17_Witness ==
    /\ YearColumnCalled
    /\ Cardinality(NumericCells(1)) = 5
    /\ Cardinality(CellsInRange(1)) = 4
    /\ ~HasInfinite(1)
    /\ year_col = ts_table[2].name

----------------------------------------------------------------------------
(* The years given to the rows of a time series without year column.       *)

\* df_ts as _find_year_column sees it: its columns in order
ts_columns(ts, cols) ==
    [k \in 1..Len(cols) |->
        [name |-> cols[k], cells |-> [i \in 1..Len(ts) |-> ts[i][cols[k]]]]]

\* line 78: year_col is None
NoYearColumn == year_column_index(ts_columns(df_ts, TsColumns), 1) = 0

\* the rows of the merged table that belong to crosswalk row j, in order
FarmerRows(j) ==
    SelectRows(df_final, [i \in 1..Len(df_final) |-> df_final[i].FarmerID = j])

\* C18: without a year column, the i-th row (0-based) of the time series
\* gets the year 1981 + i: each crosswalk row of a pixel of the series
\* carries the rows of the series in order, the i-th with year 1981 + i and
\* the yield of its pixel in that row, so that the pixels of one row share
\* its year and distinct rows have distinct consecutive years.
C18_YearByRowOrdinal ==
    (Merged /\ NoYearColumn) =>
        \A j \in 1..Len(df_vill) : \A p \in Pixels :
            df_vill[j].Pixel = Num(p) =>
                /\ Len(FarmerRows(j)) = Len(df_ts)
                /\ \A y \in 1..Len(df_ts) :
                      /\ FarmerRows(j)[y].Year = Num(1981 + (y - 1))
                      /\ FarmerRows(j)[y].Pixel = Num(p)
                      /\ FarmerRows(j)[y].Yield = df_ts[y][p]

\* two pixels of the crosswalk carry the second row of the series, both
\* with year 1982, with different yields
C18_Witness ==
    /\ Merged
    /\ NoYearColumn
    /\ Len(df_ts) >= 2
    /\ \E i, k \in Rows :
          /\ df_final[i].Pixel # df_final[k].Pixel
          /\ df_final[i].Year = Num(1982)
          /\ df_final[k].Year = Num(1982)
          /\ df_final[i].Yield = df_ts[2][0]
          /\ df_final[k].Yield = df_ts[2][1]
          /\ df_final[i].Yield # df_final[k].Yield

----------------------------------------------------------------------------
(* Column resolution of the sheet builders.                                *)

\* the characters str.strip() removes
Whitespace == {" ", "\t", "\n"}

RECURSIVE lstrip_ws(_)
lstrip_ws(s) == IF s # <<>> /\ Head(s) \in Whitespace THEN lstrip_ws(Tail(s)) ELSE s

RECURSIVE rstrip_ws(_)
rstrip_ws(s) ==
    IF s # <<>> /\ s[Len(s)] \in Whitespace THEN rstrip_ws(SubSeq(s, 1, Len(s) - 1)) ELSE s

\* s.replace(ch, "")
remove_char(s, ch) == SelectSeq(s, LAMBDA c : c # ch)

\* _norm with the underscores kept
norm_keep_underscore(s) == remove_char(lower(rstrip_ws(lstrip_ws(s))), " ")

\* _norm: str(s).strip().lower().replace(" ", "").replace("_", "")
norm(s) == remove_char(remove_char(lower(rstrip_ws(lstrip_ws(s))), " "), "_")

\* norm_to_orig = {_norm(c): c for c in df.columns}: of the columns with
\* one normal form the dictionary keeps the last
norm_to_orig(columns) ==
    [k \in {norm(columns[i]) : i \in 1..Len(columns)} |->
        columns[CHOOSE i \in 1..Len(columns) :
                    /\ norm(columns[i]) = k
                    /\ \A j \in 1..Len(columns) : norm(columns[j]) = k => j <= i]]

\* pick(*aliases): the column of the first alias whose normal form is a key
\* as a one-element sequence, the empty sequence for None
RECURSIVE pick(_, _)
pick(n2o, aliases) ==
    IF aliases = <<>> THEN <<>>
    ELSE IF norm(Head(aliases)) \in DOMAIN n2o THEN <<n2o[norm(Head(aliases))]>>
    ELSE pick(n2o, Tail(aliases))

\* the aliases of _resolve_cols of builder_excel_sheet1_fmt2.py
SHEET1_ALIASES ==
    [
    pixel_key |->
        <<<<"P", "i", "x", "e", "l", "_", "I", "D">>,
          <<"p", "i", "x", "e", "l">>>>,
    year |->
        <<<<"y", "e", "a", "r">>>>,
    yield |->
        <<<<"Y", "i", "e", "l", "d", "_", "A", "b", "s">>,
          <<"y", "i", "e", "l", "d", "_", "a", "b", "s">>,
          <<"y", "i", "e", "l", "d">>>>,
    area |->
        <<<<"a", "r", "e", "a">>>>,
    region |->
        <<<<"r", "e", "g", "i", "o", "n">>>>,
    pixel_lon |->
        <<<<"l", "o", "n">>,
          <<"l", "o", "n", "g", "i", "t", "u", "d", "e">>,
          <<"p", "i", "x", "e", "l", " ", "l", "o", "n">>>>,
    pixel_lat |->
        <<<<"l", "a", "t">>,
          <<"l", "a", "t", "i", "t", "u", "d", "e">>,
          <<"p", "i", "x", "e", "l", " ", "l", "a", "t">>>>,
    pixel_id |->
        <<<<"P", "i", "x", "e", "l", "_", "I", "D">>,
          <<"p", "i", "x", "e", "l", "i", "d">>>>,
    index_id |->
        <<<<"I", "n", "d", "e", "x", "_", "I", "D">>,
          <<"i", "n", "d", "e", "x", "i", "d">>,
          <<"i", "n", "d", "e", "x">>>>,
    farmer_count |->
        <<<<"F", "a", "r", "m", "e", "r", " ", "N", "u", "m", "b", "e", "r">>,
          <<"f", "a", "r", "m", "e", "r", "c", "o", "u", "n", "t">>,
          <<"f", "a", "r", "m", "e", "r", "s">>,
          <<"n", "_", "f", "a", "r", "m", "e", "r", "s">>>>
    ]

\* the aliases of _resolve_cols of builder_excel_sheet2_formulas.py
SHEET2_ALIASES ==
    [
    pixel_key |->
        <<<<"P", "i", "x", "e", "l", "_", "I", "D">>,
          <<"p", "i", "x", "e", "l", "i", "d">>,
          <<"p", "i", "x", "e", "l">>>>,
    year |->
        <<<<"Y", "e", "a", "r">>,
          <<"y", "e", "a", "r">>>>,
    attach |->
        <<<<"A", "t", "t", "a", "c", "h">>,
          <<"a", "t", "t", "a", "c", "h", "_", "t", "h", "r", "e", "s", "h", "o", "l", "d">>,
          <<"a", "t", "t", "a", "c", "h", "_", "k", "g", "_", "h", "a">>>>,
    detach |->
        <<<<"D", "e", "t", "a", "c", "h">>,
          <<"d", "e", "t", "a", "c", "h", "_", "t", "h", "r", "e", "s", "h", "o", "l", "d">>,
          <<"d", "e", "t", "a", "c", "h", "_", "k", "g", "_", "h", "a">>>>,
    area |->
        <<<<"A", "r", "e", "a">>,
          <<"a", "r", "e", "a", "_", "h", "a">>,
          <<"h", "e", "c", "t", "a", "r", "e", "s">>>>,
    region |->
        <<<<"R", "e", "g", "i", "o", "n">>>>,
    pixel_lon |->
        <<<<"l", "o", "n">>,
          <<"l", "o", "n", "g", "i", "t", "u", "d", "e">>>>,
    pixel_lat |->
        <<<<"l", "a", "t">>,
          <<"l", "a", "t", "i", "t", "u", "d", "e">>>>,
    pixel_id |->
        <<<<"P", "i", "x", "e", "l", "_", "I", "D">>,
          <<"p", "i", "x", "e", "l", "i", "d">>>>
    ]

\* the aliases of _resolve_cols of builder_excel_sheet3.py
SHEET3_ALIASES ==
    [
    pixel_key |->
        <<<<"P", "i", "x", "e", "l", "_", "I", "D">>,
          <<"p", "i", "x", "e", "l", "i", "d">>,
          <<"p", "i", "x", "e", "l">>>>,
    year |->
        <<<<"y", "e", "a", "r">>>>,
    payout_amount |->
        <<<<"P", "a", "y", "o", "u", "t", "A", "m", "o", "u", "n", "t", "B", "a", "s", "e">>,
          <<"p", "a", "y", "o", "u", "t", "a", "m", "o", "u", "n", "t", "b", "a", "s", "e">>,
          <<"p", "a", "y", "o", "u", "t", "_", "a", "m", "o", "u", "n", "t">>,
          <<"p", "a", "y", "o", "u", "t", "a", "m", "o", "u", "n", "t">>>>,
    payout_percent |->
        <<<<"P", "a", "y", "o", "u", "t", "s", "P", "e", "r", "c", "e", "n", "t">>,
          <<"p", "a", "y", "o", "u", "t", "s", "p", "e", "r", "c", "e", "n", "t">>,
          <<"p", "e", "r", "c", "e", "n", "t", "_", "p", "a", "y", "o", "u", "t">>>>,
    loan_amount |->
        <<<<"L", "o", "a", "n", "_", "A", "m", "o", "u", "n", "t">>,
          <<"l", "o", "a", "n", "a", "m", "o", "u", "n", "t">>>>,
    sum_insured |->
        <<<<"S", "u", "m", "_", "I", "n", "s", "u", "r", "e", "d">>,
          <<"s", "u", "m", "i", "n", "s", "u", "r", "e", "d">>>>,
    area |->
        <<<<"a", "r", "e", "a">>>>,
    region |->
        <<<<"r", "e", "g", "i", "o", "n">>>>,
    pixel_lon |->
        <<<<"l", "o", "n">>,
          <<"l", "o", "n", "g", "i", "t", "u", "d", "e">>>>,
    pixel_lat |->
        <<<<"l", "a", "t">>,
          <<"l", "a", "t", "i", "t", "u", "d", "e">>>>,
    pixel_id |->
        <<<<"P", "i", "x", "e", "l", "_", "I", "D">>,
          <<"p", "i", "x", "e", "l", "i", "d">>>>
    ]

\* _resolve_cols(df) with the alias table of its module
resolve_cols(columns, aliases) ==
    [f \in DOMAIN aliases |-> pick(norm_to_orig(columns), aliases[f])]

\* columns of the dataframe given to a builder
MaxCols == 3

Col_pixel == <<"p", "i", "x", "e", "l">>

Col_Pixel_ID == <<"P", "i", "x", "e", "l", "_", "I", "D">>

Col_pixelid == <<"p", "i", "x", "e", "l", "i", "d">>

Col_PIXEL_ID_spaced == <<" ", "P", "I", "X", "E", "L", " ", "I", "D", " ">>

Col_Pixel_hyphen_ID == <<"P", "i", "x", "e", "l", "-", "I", "D">>

Col_Year == <<"Y", "e", "a", "r">>

Col_YEAR_tab == <<"\t", "Y", "E", "A", "R">>

Col_yield == <<"y", "i", "e", "l", "d">>

Col_Yield_Abs == <<"Y", "i", "e", "l", "d", "_", "A", "b", "s">>

Col_Index == <<"I", "n", "d", "e", "x">>

Col_Region == <<"R", "e", "g", "i", "o", "n">>

Col_Loan_Amount == <<"L", "o", "a", "n", "_", "A", "m", "o", "u", "n", "t">>

ColumnNames ==
    {Col_pixel,
     Col_Pixel_ID,
     Col_pixelid,
     Col_PIXEL_ID_spaced,
     Col_Pixel_hyphen_ID,
     Col_Year,
     Col_YEAR_tab,
     Col_yield,
     Col_Yield_Abs,
     Col_Index,
     Col_Region,
     Col_Loan_Amount}

\* the lists of at most n distinct column names
RECURSIVE ColumnLists(_)
ColumnLists(n) ==
    IF n = 0 THEN {<<>>}
    ELSE LET prev == ColumnLists(n - 1)
         IN  prev \cup
             UNION {{Append(q, c) : c \in ColumnNames \ {q[i] : i \in 1..Len(q)}} :
                        q \in {r \in prev : Len(r) = n - 1}}

\* the workbook given to a builder, as the titles of its sheets: none, a
\* new Workbook(), one with a sheet
Workbooks == {<<>>, <<"Sheet">>, <<"0. Summary">>}

InitSheets ==
    /\ PipelineIdle
    /\ regional = <<>>
    /\ AreaIdle
    /\ YearIdle
    /\ ReportIdle
    /\ sheet_df \in ColumnLists(MaxCols)
    /\ sheet_cols = <<>>
    /\ wb \in Workbooks
    /\ raised = <<>>
    /\ sheet_op = "none"

\* ws_title_is_default: the title starts with "sheet", whatever the case
ws_title_is_default(t) == t \in {"Sheet", "Sheet1"}

\* wb = wb or Workbook(); the empty default sheet is reused, otherwise a
\* sheet is created; ws.title = sheet_name
add_sheet(book, sheet_name) ==
    LET w == IF book = <<>> THEN <<"Sheet">> ELSE book
    IN  IF ws_title_is_default(w[1]) THEN <<sheet_name>> \o Tail(w)
        ELSE Append(w, sheet_name)

\* missing = [k for k, v in required.items() if not v]
missing_keys(cols, required) == SelectSeq(required, LAMBDA k : cols[k] = <<>>)

\* cols = _resolve_cols(df) of builder_excel_sheet1_fmt2.py
ResolveColsSheet1 ==
    /\ sheet_op = "none"
    /\ sheet_cols' = <<resolve_cols(sheet_df, SHEET1_ALIASES)>>
    /\ sheet_op' = "sheet1._resolve_cols"
    /\ UNCHANGED <<sheet_df, wb, raised>>
    /\ UNCHANGED <<pipeline_vars, regional, area_vars, year_vars, report_vars>>

\* cols = _resolve_cols(df) of builder_excel_sheet3.py
ResolveColsSheet3 ==
    /\ sheet_op = "none"
    /\ sheet_cols' = <<resolve_cols(sheet_df, SHEET3_ALIASES)>>
    /\ sheet_op' = "sheet3._resolve_cols"
    /\ UNCHANGED <<sheet_df, wb, raised>>
    /\ UNCHANGED <<pipeline_vars, regional, area_vars, year_vars, report_vars>>

\* build_excel_sheet1(df, wb): the ValueError of line 74, or the sheet
BuildExcelSheet1 ==
    /\ sheet_op = "none"
    /\ LET cols    == resolve_cols(sheet_df, SHEET1_ALIASES)
           missing == missing_keys(cols, <<"pixel_key", "year", "yield">>)
       IN  /\ sheet_cols' = <<cols>>
           /\ IF missing # <<>>
              THEN /\ raised' = <<[exception |-> "ValueError",
                                   message   |-> "Missing required columns: {missing}. Available: {list(df.columns)}",
                                   missing   |-> missing,
                                   available |-> sheet_df]>>
                   /\ wb' = wb
              ELSE /\ raised' = <<>>
                   /\ wb' = add_sheet(wb, "1. Modelled Yield")
    /\ sheet_op' = "build_excel_sheet1"
    /\ UNCHANGED sheet_df
    /\ UNCHANGED <<pipeline_vars, regional, area_vars, year_vars, report_vars>>

\* build_excel_sheet2(df, wb): the ValueError of line 62, whose message is
\* fixed and holds neither the missing keys nor the columns, or the sheet
BuildExcelSheet2 ==
    /\ sheet_op = "none"
    /\ LET cols == resolve_cols(sheet_df, SHEET2_ALIASES)
       IN  /\ sheet_cols' = <<cols>>
           /\ IF cols["pixel_key"] = <<>> \/ cols["year"] = <<>>
              THEN /\ raised' = <<[exception |-> "ValueError",
                                   message   |-> "Dataframe must include Pixel_ID and Year.",
                                   missing   |-> <<>>,
                                   available |-> <<>>]>>
                   /\ wb' = wb
              ELSE /\ raised' = <<>>
                   /\ wb' = add_sheet(wb, "2. Payouts %")
    /\ sheet_op' = "build_excel_sheet2"
    /\ UNCHANGED sheet_df
    /\ UNCHANGED <<pipeline_vars, regional, area_vars, year_vars, report_vars>>

NextSheets ==
    \/ ResolveColsSheet1
    \/ ResolveColsSheet3
    \/ BuildExcelSheet1
    \/ BuildExcelSheet2

SpecSheets == InitSheets /\ [][NextSheets]_vars

\* x without its surrounding whitespace
Core(x) ==
    LET idx == {i \in 1..Len(x) : x[i] \notin Whitespace}
    IN  IF idx = {} THEN <<>>
        ELSE SubSeq(x, CHOOSE i \in idx : \A j \in idx : i <= j,
                       CHOOSE i \in idx : \A j \in idx : j <= i)

\* two names are the same up to case, surrounding whitespace, spaces and
\* underscores
SameName(a, b) ==
    lower(SelectSeq(Core(a), LAMBDA c : c \notin {" ", "_"}))
        = lower(SelectSeq(Core(b), LAMBDA c : c \notin {" ", "_"}))

\* alias a names a column of the dataframe
AliasMatches(a) == \E i \in 1..Len(sheet_df) : SameName(sheet_df[i], a)

\* the alias table of the function called
CalledAliases ==
    IF sheet_op = "sheet1._resolve_cols" THEN SHEET1_ALIASES ELSE SHEET3_ALIASES

ColsResolved == sheet_op \in {"sheet1._resolve_cols", "sheet3._resolve_cols"}

\* C19: _resolve_cols matches names up to case, surrounding whitespace,
\* spaces and underscores: a column "pixel", "Pixel_ID" or "pixelid"
\* resolves the pixel key; each field resolves to a column named by the
\* first of its aliases, in listed order, that names a column, and to None
\* when none of its aliases names a column.
C19_AliasResolution ==
    ColsResolved =>
        /\ (\E i \in 1..Len(sheet_df) : sheet_df[i] \in {Col_pixel, Col_Pixel_ID, Col_pixelid})
              => sheet_cols[1]["pixel_key"] # <<>>
        /\ \A f \in DOMAIN CalledAliases :
              LET al   == CalledAliases[f]
                  hits == {k \in 1..Len(al) : AliasMatches(al[k])}
              IN  IF hits = {} THEN sheet_cols[1][f] = <<>>
                  ELSE /\ Len(sheet_cols[1][f]) = 1
                       /\ \E i \in 1..Len(sheet_df) : sheet_cols[1][f][1] = sheet_df[i]
                       /\ SameName(sheet_cols[1][f][1],
                                   al[CHOOSE k \in hits : \A m \in hits : k <= m])

\* with the columns "pixel" and then "pixelid", the pixel key of sheet 1 is
\* "pixelid", the match of the first alias "Pixel_ID"; the year is None
C19_Witness ==
    /\ sheet_op = "sheet1._resolve_cols"
    /\ sheet_df = <<Col_pixel, Col_pixelid>>
    /\ sheet_cols[1]["pixel_key"] = <<Col_pixelid>>
    /\ sheet_cols[1]["year"] = <<>>

BuilderCalled == sheet_op \in {"build_excel_sheet1", "build_excel_sheet2"}

\* the logical columns the builder called cannot do without
RequiredKeys ==
    IF sheet_op = "build_excel_sheet1" THEN {"pixel_key", "year", "yield"}
    ELSE {"pixel_key", "year"}

BuilderAliases ==
    IF sheet_op = "build_excel_sheet1" THEN SHEET1_ALIASES ELSE SHEET2_ALIASES

\* the required logical columns that no alias resolves
Unresolved ==
    {k \in RequiredKeys :
        \A a \in 1..Len(BuilderAliases[k]) : ~AliasMatches(BuilderAliases[k][a])}

NoSheetAdded == \A i \in 1..Len(wb) : wb[i] \notin {"1. Modelled Yield", "2. Payouts %"}

ListsAll ==
    /\ Len(raised) = 1
    /\ raised[1].exception = "ValueError"
    /\ {raised[1].missing[i] : i \in 1..Len(raised[1].missing)} = Unresolved
    /\ raised[1].available = sheet_df

\* C20: a builder called with a dataframe in which a required logical
\* column is unresolved raises an error that lists all the unresolved
\* logical columns and the columns of the dataframe, and adds no sheet to
\* the workbook.
C20_FatalErrorListsAll ==
    (BuilderCalled /\ Unresolved # {}) => (ListsAll /\ NoSheetAdded)

\* the part of C20 that holds: every builder raises and adds no sheet, and
\* build_excel_sheet1 lists the unresolved keys and the columns
C20_RaisesWithoutSheet ==
    (BuilderCalled /\ Unresolved # {}) =>
        /\ Len(raised) = 1
        /\ NoSheetAdded
        /\ sheet_op = "build_excel_sheet1" => ListsAll

\* build_excel_sheet1 raised with two keys missing, both listed
C20_Sheet1Witness ==
    /\ sheet_op = "build_excel_sheet1"
    /\ Cardinality(Unresolved) = 2
    /\ ListsAll
    /\ NoSheetAdded
    /\ Len(wb) = 1

----------------------------------------------------------------------------
(* The pivot of build_excel_sheet1: the long table back to a grid.         *)

\* the distinct non-null values of a column, ascending
sorted_unique(df, col) ==
    sorted(SetToSeq({df[i][col] : i \in 1..Len(df)} \ {NaN}))

\* aggfunc="first" of the group (y, p): its first non-null value
first_value(df, index, columns, values, y, p) ==
    LET g == SelectRows(df, [i \in 1..Len(df) |-> df[i][index] = y /\ df[i][columns] = p])
        v == dropna([i \in 1..Len(g) |-> g[i][values]])
    IN  IF v = <<>> THEN NaN ELSE v[1]

\* lines 81-96: all_years, and df.pivot_table(index, columns, values,
\* aggfunc="first").sort_index().reindex(all_years).  pivot_table drops the
\* groups whose value is null and, with them, the columns left without any
\* value (dropna=True); the years left without any value come back, empty,
\* with the reindex
pivot_table(df, index, columns, values) ==
    LET all_years == sorted_unique(df, index)
        keys      == sorted_unique(df, columns)
        kept      == SelectRows(keys, [j \in 1..Len(keys) |->
                        \E i \in 1..Len(all_years) :
                            ~isna(first_value(df, index, columns, values, all_years[i], keys[j]))])
    IN  [index   |-> all_years,
         columns |-> kept,
         values  |-> [i \in 1..Len(all_years) |->
                        [j \in 1..Len(kept) |->
                            first_value(df, index, columns, values, all_years[i], kept[j])]]]

\* the crosswalk has one village in each pixel of the series, each pixel has
\* a threshold
InitPivot ==
    /\ df_vill = [k \in 1..Len(TsColumns) |->
                    [Region |-> RegionOfPixel[TsColumns[k]], Pixel |-> Num(TsColumns[k])]]
    /\ df_thresh = [k \in 1..Len(TsColumns) |->
                      [Pixel |-> Num(TsColumns[k]), Threshold_Yield |-> Num(1000)]]
    /\ df_ts \in [1..MaxYears -> [Pixels -> {NaN, Rat(1, 2), One}]]
    /\ \A i \in 1..MaxYears : \A k \in 2..Len(TsColumns) : df_ts[i][TsColumns[k]] # Rat(1, 2)
    /\ region_map = <<>>
    /\ df_final = <<>>
    /\ pc = "start"
    /\ OthersIdle

\* build_excel_sheet1 on the merged long table, whose columns Pixel, Year
\* and Yield resolve the pixel key, the year and the yield
PivotSheet1 ==
    /\ pc = "merged"
    /\ pivot' = pivot_table(df_final, "Year", "Pixel", "Yield")
    /\ pc' = "pivoted"
    /\ UNCHANGED sheet2_grid
    /\ UNCHANGED <<df_vill, df_thresh, df_ts, region_map, df_final>>
    /\ UNCHANGED <<regional, area_vars, year_vars, sheet_vars, benefit_vars, rerun_vars, raw_vars, extra_vars>>

\* the first data row and the first pixel column of sheet 1
row_data_start == 10

first_data_col == 6

\* the first data row and the first pixel column of sheet 2
ROW_FIRST_DATA == 10

COL_FIRST_PIXEL == 6

\* lines 208-220 of builder_excel_sheet1_fmt2.py: the year, the pixel and
\* the yield in the cell (r, c) of the data rows of sheet 1; the empty
\* sequence for a cell outside them
sheet1_cell(pv, r, c) ==
    LET i == r - row_data_start + 1
        j == c - first_data_col + 1
    IN  IF i \in 1..Len(pv.index) /\ j \in 1..Len(pv.columns)
        THEN <<[year |-> pv.index[i], pixel |-> pv.columns[j], value |-> pv.values[i][j]]>>
        ELSE <<>>

\* lines 68-69 and 167-199 of builder_excel_sheet2_formulas.py: the grid of
\* sheet 2 has a row for each year and a column for each pixel id of the
\* table; the formula of a cell refers to the cell of sheet 1 in the same row
\* and column
sheet2_formulas(df, ycol, pcol) ==
    LET pixel_order == sorted_unique(df, pcol)
        year_list   == sorted_unique(df, ycol)
    IN  [i \in 1..Len(year_list) |->
            [j \in 1..Len(pixel_order) |->
                [year  |-> year_list[i],
                 pixel |-> pixel_order[j],
                 row   |-> ROW_FIRST_DATA + i - 1,
                 col   |-> COL_FIRST_PIXEL + j - 1,
                 y_ref |-> [row |-> ROW_FIRST_DATA + i - 1, col |-> COL_FIRST_PIXEL + j - 1]]]]

\* build_excel_sheet2 on the table of which sheet 1 was built
BuildSheet2Grid ==
    /\ pc = "pivoted"
    /\ sheet2_grid' = sheet2_formulas(df_final, "Year", "Pixel")
    /\ pc' = "sheet2"
    /\ UNCHANGED <<df_vill, df_thresh, df_ts, region_map, df_final, pivot>>
    /\ UNCHANGED <<regional, area_vars, year_vars, sheet_vars, benefit_vars, rerun_vars, raw_vars, extra_vars>>

NextPivot ==
    \/ MergeInputs
    \/ PivotSheet1
    \/ BuildSheet2Grid

SpecPivot == InitPivot /\ [][NextPivot]_vars

Pivoted == pc = "pivoted"

\* the pixels of the series with at least one yield, in column order
PixelsWithData ==
    SelectRows(TsColumns, [k \in 1..Len(TsColumns) |->
        \E i \in 1..Len(df_ts) : ~isna(df_ts[i][TsColumns[k]])])

\* C21: the pivot of the melted series has one row per year and one column
\* per pixel of the wide table, pixels and years without any value
\* included, and the values of the wide table.
C21_MeltPivotRoundTrip ==
    Pivoted =>
        /\ pivot.index = [i \in 1..Len(df_ts) |-> Num(start_year + i - 1)]
        /\ pivot.columns = [k \in 1..Len(TsColumns) |-> Num(TsColumns[k])]
        /\ \A i \in 1..Len(df_ts) : \A k \in 1..Len(TsColumns) :
              pivot.values[i][k] = df_ts[i][TsColumns[k]]

\* the part of C21 that holds: one row per year, years without any value
\* included, one column per pixel that has a value, and the values of the
\* wide table in them
C21_RoundTripOfPixelsWithData ==
    Pivoted =>
        /\ pivot.index = [i \in 1..Len(df_ts) |-> Num(start_year + i - 1)]
        /\ pivot.columns = [k \in 1..Len(PixelsWithData) |-> Num(PixelsWithData[k])]
        /\ \A i \in 1..Len(df_ts) : \A k \in 1..Len(PixelsWithData) :
              pivot.values[i][k] = df_ts[i][PixelsWithData[k]]

\* a year without any value is a row of the pivot, next to a year with one
C21_EmptyYearWitness ==
    /\ Pivoted
    /\ Len(pivot.columns) = Len(TsColumns)
    /\ \E i \in 1..Len(df_ts) : \A k \in 1..Len(TsColumns) : isna(pivot.values[i][k])

----------------------------------------------------------------------------
(* The diversification benefit of a zone.                                  *)

\* zones of the regional table
MaxZones == 2

\* a cell of a CoV row: empty, zero, or a ratio
CoVCells == {NaN, Zero, Rat(1, 2), One}

\* pd.isna(v) -> 0, float(v) otherwise; also the value of a reference to an
\* empty cell in a formula of the workbook
zero_if_blank(v) == IF isna(v) THEN Zero ELSE v

\* lines 318-323: the benefit of a zone, in percent
chart_benefit(avg_pixel_cov, national_cov) ==
    IF ~IsZero(avg_pixel_cov)
    THEN Mul(Sub(One, Div(national_cov, avg_pixel_cov)), Num(100))
    ELSE Zero

\* cell E of sheet 10, =IF(C=0,"",1-D/B), as the workbook evaluates it: B
\* the average pixel CoV, C the area CoV, D the national CoV of sheet 6
sheet10_benefit(b, c, d) ==
    IF IsZero(zero_if_blank(c)) THEN [kind |-> "empty", value |-> NaN]
    ELSE IF IsZero(zero_if_blank(b)) THEN [kind |-> "#DIV/0!", value |-> NaN]
    ELSE [kind |-> "number",
          value |-> Sub(One, Div(zero_if_blank(d), zero_if_blank(b)))]

InitBenefit ==
    /\ PipelineIdle
    /\ regional = <<>>
    /\ AreaIdle
    /\ YearIdle
    /\ SheetIdle
    /\ PivotIdle
    /\ RerunIdle
    /\ ExtraIdle
    /\ RawIdle
    /\ \E avg \in [1..MaxZones -> CoVCells] : \E cov \in [1..MaxZones -> CoVCells] :
       \E nat \in CoVCells :
          cov_table = [zones    |-> [z \in 1..MaxZones |->
                                       [avg_pixel_cov |-> avg[z], area_cov |-> cov[z]]],
                       national |-> nat]
    /\ benefit = <<>>
    /\ benefit_op = "none"

\* create_diversification_benefit_chart, for a table with the column
\* Overall Total
CreateDiversificationBenefitChart ==
    /\ benefit_op = "none"
    /\ benefit' = [z \in 1..Len(cov_table.zones) |->
                     [kind  |-> "number",
                      value |-> chart_benefit(zero_if_blank(cov_table.zones[z].avg_pixel_cov),
                                              zero_if_blank(cov_table.national))]]
    /\ benefit_op' = "create_diversification_benefit_chart"
    /\ UNCHANGED cov_table
    /\ UNCHANGED <<pipeline_vars, regional, area_vars, year_vars, sheet_vars, pivot_vars, rerun_vars, raw_vars, extra_vars>>

\* build_excel_sheet10_diversification_chart: column E of the helper table
BuildExcelSheet10 ==
    /\ benefit_op = "none"
    /\ benefit' = [z \in 1..Len(cov_table.zones) |->
                     sheet10_benefit(cov_table.zones[z].avg_pixel_cov,
                                     cov_table.zones[z].area_cov,
                                     cov_table.national)]
    /\ benefit_op' = "build_excel_sheet10_diversification_chart"
    /\ UNCHANGED cov_table
    /\ UNCHANGED <<pipeline_vars, regional, area_vars, year_vars, sheet_vars, pivot_vars, rerun_vars, raw_vars, extra_vars>>

NextBenefit ==
    \/ CreateDiversificationBenefitChart
    \/ BuildExcelSheet10

SpecBenefit == InitBenefit /\ [][NextBenefit]_vars

BenefitComputed == benefit_op # "none"

\* the scale of the benefit: percent in the chart, a fraction in sheet 10
BenefitScale == IF benefit_op = "create_diversification_benefit_chart" THEN 100 ELSE 1

\* 1 - national_CoV / zone_average_pixel_CoV of zone z, empty cells as 0
ExpectedBenefit(z) ==
    Sub(One, Div(zero_if_blank(cov_table.national),
                 zero_if_blank(cov_table.zones[z].avg_pixel_cov)))

\* C22: every zone whose average pixel CoV is not zero has the benefit
\* 1 - national_CoV / zone_average_pixel_CoV; a zone whose average pixel CoV
\* is zero or missing has no value or 0, and nothing is divided by zero.
C22_DiversificationBenefit ==
    BenefitComputed =>
        \A z \in 1..Len(cov_table.zones) :
            IF IsZero(zero_if_blank(cov_table.zones[z].avg_pixel_cov))
            THEN \/ benefit[z].kind = "empty"
                 \/ benefit[z].kind = "number" /\ IsZero(benefit[z].value)
            ELSE /\ benefit[z].kind = "number"
                 /\ benefit[z].value = Mul(ExpectedBenefit(z), Num(BenefitScale))

\* the part of C22 that holds: the chart function gives every zone its
\* benefit, 0 for a zone without average pixel CoV; sheet 10 gives the
\* benefit to the zones whose area CoV and average pixel CoV are not zero
C22_BenefitWhereComputed ==
    BenefitComputed =>
        \A z \in 1..Len(cov_table.zones) :
            /\ benefit_op = "create_diversification_benefit_chart" =>
                  IF IsZero(zero_if_blank(cov_table.zones[z].avg_pixel_cov))
                  THEN IsZero(benefit[z].value)
                  ELSE benefit[z].value = Mul(ExpectedBenefit(z), Num(100))
            /\ (/\ benefit_op = "build_excel_sheet10_diversification_chart"
                /\ ~IsZero(zero_if_blank(cov_table.zones[z].avg_pixel_cov))
                /\ ~IsZero(zero_if_blank(cov_table.zones[z].area_cov)))
                  => benefit[z] = [kind |-> "number", value |-> ExpectedBenefit(z)]

\* sheet 10 divided by an average pixel CoV of zero in one zone and gave
\* no value to a zone whose average pixel CoV is not zero
C22_Sheet10Witness ==
    /\ benefit_op = "build_excel_sheet10_diversification_chart"
    /\ \E z \in 1..Len(cov_table.zones) : benefit[z].kind = "#DIV/0!"
    /\ \E z \in 1..Len(cov_table.zones) :
          /\ benefit[z].kind = "empty"
          /\ ~IsZero(zero_if_blank(cov_table.zones[z].avg_pixel_cov))

----------------------------------------------------------------------------
(* Two runs of load_and_merge on the same files.                           *)

\* the table load_and_merge returns when line 142 draws the loans rmap
load_and_merge(vill, thresh, ts, cols, rmap) ==
    with_stats(with_payouts(with_loan_and_area(
        with_thresholds(merged(vill, thresh, ts, cols)), rmap)))

\* load_and_merge run again on the files of a finished run: line 142 draws
\* the loans of the regions anew
SecondRun ==
    /\ pc = "done"
    /\ rerun = <<>>
    /\ \E rmap \in [DOMAIN region_map -> LoanVals] :
          rerun' = <<[region_map |-> rmap,
                      df_final   |-> load_and_merge(df_vill, df_thresh, df_ts, TsColumns, rmap)]>>
    /\ UNCHANGED pipeline_vars
    /\ UNCHANGED <<regional, area_vars, year_vars, sheet_vars, pivot_vars, benefit_vars, raw_vars, extra_vars>>

NextTwoRuns ==
    \/ Next
    \/ SecondRun

SpecTwoRuns == InitPivot /\ [][NextTwoRuns]_vars

RanTwice == pc = "done" /\ rerun # <<>>

\* C23: two runs on the same files give every pixel the same Loan_Amount,
\* and with it the same Sum_Insured, PayoutAmountBase and statistics.
C23_SameLoanInEveryRun ==
    RanTwice =>
        /\ Len(rerun[1].df_final) = Len(df_final)
        /\ \A i \in Rows :
              /\ rerun[1].df_final[i].Loan_Amount = df_final[i].Loan_Amount
              /\ rerun[1].df_final[i].Sum_Insured = df_final[i].Sum_Insured
              /\ rerun[1].df_final[i].PayoutAmountBase = df_final[i].PayoutAmountBase
              /\ rerun[1].df_final[i].PayoutAvg = df_final[i].PayoutAvg

\* the part of C23 that holds: the loan is constant per pixel within a run,
\* and the runs differ by nothing but the loans drawn for the regions
C23_LoanConstantPerPixel ==
    RanTwice =>
        /\ \A i, k \in Rows :
              df_final[i].Pixel_ID = df_final[k].Pixel_ID
                  => df_final[i].Loan_Amount = df_final[k].Loan_Amount
        /\ rerun[1].region_map = region_map => rerun[1].df_final = df_final

\* the second run drew another loan for a region, and a pixel of the region
\* has another average payout
C23_Witness ==
    /\ RanTwice
    /\ \E i \in Rows :
          /\ rerun[1].df_final[i].Loan_Amount # df_final[i].Loan_Amount
          /\ ~IsZero(df_final[i].PayoutAvg)
          /\ rerun[1].df_final[i].PayoutAvg # df_final[i].PayoutAvg

----------------------------------------------------------------------------
(* The numeric columns of the files, read as text and coerced.            *)

Digits ==
    ("0" :> 0) @@ ("1" :> 1) @@ ("2" :> 2) @@ ("3" :> 3) @@ ("4" :> 4) @@
    ("5" :> 5) @@ ("6" :> 6) @@ ("7" :> 7) @@ ("8" :> 8) @@ ("9" :> 9)

IsDigits(t) == t # <<>> /\ \A i \in 1..Len(t) : t[i] \in DOMAIN Digits

RECURSIVE digits_value(_)
digits_value(t) ==
    IF t = <<>> THEN 0 ELSE 10 * digits_value(SubSeq(t, 1, Len(t) - 1)) + Digits[t[Len(t)]]

RECURSIVE power_of_ten(_)
power_of_ten(k) == IF k = 0 THEN 1 ELSE 10 * power_of_ten(k - 1)

\* pd.to_numeric(text, errors='coerce') of one cell: digits, with an
\* optional sign and an optional fraction, are the number; any other text
\* is null.  Exponents and the words inf and nan are not modelled
to_numeric(t) ==
    LET neg  == t # <<>> /\ t[1] = "-"
        body == IF neg THEN Tail(t) ELSE t
        dots == {i \in 1..Len(body) : body[i] = "."}
        sign == IF neg THEN -1 ELSE 1
    IN  IF dots = {}
        THEN IF IsDigits(body) THEN Num(sign * digits_value(body)) ELSE NaN
        ELSE LET k    == CHOOSE i \in dots : TRUE
                 int  == SubSeq(body, 1, k - 1)
                 frac == SubSeq(body, k + 1, Len(body))
             IN  IF Cardinality(dots) = 1 /\ IsDigits(int) /\ IsDigits(frac)
                 THEN Rat(sign * (digits_value(int) * power_of_ten(Len(frac)) + digits_value(frac)),
                          power_of_ten(Len(frac)))
                 ELSE NaN

\* lines 65-68 and 120-123: the Pixel column of the crosswalk and the Yield
\* column, cell by cell
coerce_column(cells) == [i \in 1..Len(cells) |-> to_numeric(cells[i])]

\* the region of the villages of the crosswalk, by row
RegionOfRow == <<Txt_Arusha, Txt_Rukwa>>

\* cells of the files
PixelTexts == {<<"0">>, <<"1">>, <<"1", "x">>}

YieldTexts == {<<"1">>, <<"1", ".", "5">>, <<"1", "x">>}

OtherYieldTexts == {<<"0", ".", "5">>, <<"a", "b", "c">>}

YearTexts == {<<"1", "9", "8", "1">>, <<"2", "0", "2", "2">>, <<"1", "9", "8", "x">>, <<>>}

\* the rows of the year column of a time series
MaxYearCells == 3

InitCoerce ==
    /\ df_vill = <<>>
    /\ df_thresh = <<>>
    /\ df_ts = <<>>
    /\ region_map = <<>>
    /\ df_final = <<>>
    /\ pc = "files"
    /\ regional = <<>>
    /\ AreaIdle
    /\ YearIdle
    /\ SheetIdle
    /\ PivotIdle
    /\ BenefitIdle
    /\ RerunIdle
    /\ ExtraIdle
    /\ \/ /\ raw_vill \in {<<<<"0">>, <<"1">>>>, <<<<"0">>, <<"1", "x">>>>, <<<<"1", "x">>, <<"1">>>>}
          /\ raw_ts \in [1..MaxYears -> [Pixels -> YieldTexts \cup OtherYieldTexts]]
          /\ \A i \in 1..MaxYears : \A k \in 1..Len(TsColumns) :
                raw_ts[i][TsColumns[k]] \in (IF k = 1 THEN YieldTexts ELSE OtherYieldTexts)
          /\ raw_year = <<>>
       \/ /\ raw_vill = <<<<"0">>, <<"1">>>>
          /\ raw_ts = [i \in 1..MaxYearCells |-> [c \in Pixels |-> <<"1">>]]
          /\ raw_year \in [1..MaxYearCells -> YearTexts]
    /\ year_parsed = <<>>

\* lines 49-123 on a time series without year column: the Pixel column of
\* the crosswalk and the yields are coerced
ReadFiles ==
    /\ pc = "files"
    /\ raw_year = <<>>
    /\ df_vill' = [i \in 1..Len(raw_vill) |->
                     [Region |-> RegionOfRow[i], Pixel |-> to_numeric(raw_vill[i])]]
    /\ df_thresh' = [k \in 1..Len(TsColumns) |->
                       [Pixel |-> Num(TsColumns[k]), Threshold_Yield |-> Num(1000)]]
    /\ df_ts' = [i \in 1..Len(raw_ts) |-> [c \in Pixels |-> to_numeric(raw_ts[i][c])]]
    /\ pc' = "start"
    /\ UNCHANGED <<region_map, df_final>>
    /\ UNCHANGED <<regional, area_vars, year_vars, sheet_vars, pivot_vars, benefit_vars, rerun_vars, raw_vars, extra_vars>>

\* line 88 on the year column of a time series that has one:
\* to_numeric(errors='coerce'), Int64
CoerceYearColumn ==
    /\ pc = "files"
    /\ raw_year # <<>>
    /\ year_parsed' = coerce_column(raw_year)
    /\ pc' = "years"
    /\ UNCHANGED <<df_vill, df_thresh, df_ts, region_map, df_final>>
    /\ UNCHANGED <<raw_vill, raw_ts, raw_year>>
    /\ UNCHANGED <<regional, area_vars, year_vars, sheet_vars, pivot_vars, benefit_vars, rerun_vars, extra_vars>>

NextCoerce ==
    \/ ReadFiles
    \/ CoerceYearColumn
    \/ Next

SpecCoerce == InitCoerce /\ [][NextCoerce]_vars

\* what the well-formed cells of the files mean
Meaning ==
    [t \in {<<"0">>, <<"1">>, <<"0", ".", "5">>, <<"1", ".", "5">>,
            <<"1", "9", "8", "1">>, <<"2", "0", "2", "2">>} |->
        IF t = <<"0">> THEN Zero
        ELSE IF t = <<"1">> THEN One
        ELSE IF t = <<"0", ".", "5">> THEN Rat(1, 2)
        ELSE IF t = <<"1", ".", "5">> THEN Rat(3, 2)
        ELSE IF t = <<"1", "9", "8", "1">> THEN Num(1981)
        ELSE Num(2022)]

\* the value of a cell: null for a malformed or empty one
Coerced(t) == IF t \in DOMAIN Meaning THEN Meaning[t] ELSE NaN

FilesRead == pc \notin {"files", "years"}

\* every cell of the files has its value in the tables, a malformed one null
CellsCoerced ==
    /\ FilesRead =>
          /\ \A i \in 1..Len(raw_vill) : df_vill[i].Pixel = Coerced(raw_vill[i])
          /\ \A i \in 1..Len(raw_ts) : \A c \in Pixels : df_ts[i][c] = Coerced(raw_ts[i][c])
    /\ pc = "years" =>
          \A i \in 1..Len(raw_year) : year_parsed[i] = Coerced(raw_year[i])

\* C24: malformed numeric strings in the pixel, year and yield cells never
\* make load_and_merge raise: each is coerced to null and the other cells
\* of its column have their values.
C24_MalformedNeverRaises ==
    /\ pc # "raised"
    /\ CellsCoerced

\* the part of C24 that holds: the cells are coerced as stated
C24_CoercedToNull == CellsCoerced

\* a run with a malformed pixel cell and malformed yields came to its end
C24_Witness ==
    /\ pc = "done"
    /\ \E i \in 1..Len(raw_vill) : raw_vill[i] = <<"1", "x">> /\ isna(df_vill[i].Pixel)
    /\ \E i, k \in 1..Len(raw_ts) :
          /\ raw_ts[i][0] = <<"1", "x">> /\ isna(df_ts[i][0])
          /\ raw_ts[k][0] = <<"1", ".", "5">> /\ df_ts[k][0] = Rat(3, 2)

\* load_and_merge raised on files whose only fault is a malformed yield
C24_RaisedWitness ==
    /\ pc = "raised"
    /\ \E i \in 1..Len(raw_ts) : raw_ts[i][0] = <<"1", "x">>
    /\ \A i \in 1..Len(raw_vill) : ~isna(df_vill[i].Pixel)

----------------------------------------------------------------------------
(* Area CoV of the regional table.                                         *)

\* C25: in every column, Area CoV is SD / Average of the column's non-null
\* annual totals when their average is not zero (Area CoV * Average is the
\* standard deviation of the totals), and None, not 0, when the column has
\* no annual total or their average is zero.
C25_AreaCoV ==
    RegionalBuilt =>
        \A c \in Columns :
            LET col == regional[c]
                t   == ColumnTotals(col)
                n   == Len(t)
                avg == IF n = 0 THEN NaN ELSE Div(SumSeq(t), Num(n))
                cov == col.Area_CoV
            IN  IF n = 0 \/ IsZero(avg) THEN isna(cov.coef)
                ELSE /\ ~isna(cov.coef)
                     /\ Le(Zero, Mul(cov.coef, avg))
                     /\ Mul(Mul(Mul(Mul(cov.coef, avg), Mul(cov.coef, avg)), cov.rad), Num(n - 1))
                           = IF n = 1 THEN Zero ELSE SumSquares(t, avg)

\* a column whose totals are all zero and a column without totals have no
\* Area CoV; a column with the totals 800 and 0 has the Area CoV sqrt(2)
C25_Witness ==
    /\ RegionalBuilt
    /\ \E c \in Columns :
          /\ ColumnTotals(regional[c]) = <<Zero, Zero>>
          /\ isna(regional[c].Area_CoV.coef)
    /\ \E c \in Columns :
          /\ ColumnTotals(regional[c]) = <<>>
          /\ isna(regional[c].Area_CoV.coef)
    /\ \E c \in Columns :
          /\ ColumnTotals(regional[c]) = <<Num(800), Zero>>
          /\ regional[c].Area_CoV = Root(One, Num(2))

----------------------------------------------------------------------------
(* The grids of sheet 1 and sheet 2.                                       *)

Sheet2Built == pc = "sheet2"

\* the cell of sheet 2 in row i and column j of its grid refers to the cell
\* of sheet 1 that holds the yield of the same pixel and year
Aligned(i, j) ==
    LET f == sheet2_grid[i][j]
        y == sheet1_cell(pivot, f.y_ref.row, f.y_ref.col)
    IN  /\ y # <<>>
        /\ y[1].year = f.year
        /\ y[1].pixel = f.pixel
        /\ \E k \in Rows : /\ df_final[k].Year = f.year
                           /\ df_final[k].Pixel = f.pixel
                           /\ df_final[k].Yield = y[1].value

\* C26: every formula of the grid of sheet 2 refers to the cell of sheet 1
\* with the yield of the same pixel and year, also when a pixel has no
\* yield at all.
C26_GridAlignment ==
    Sheet2Built =>
        \A i \in 1..Len(sheet2_grid) : \A j \in 1..Len(sheet2_grid[i]) : Aligned(i, j)

\* the part of C26 that holds: the grids are aligned when every pixel of
\* the table has a yield in some year
C26_AlignedWhenEveryPixelHasData ==
    (Sheet2Built /\ Len(PixelsWithData) = Len(TsColumns)) =>
        \A i \in 1..Len(sheet2_grid) : \A j \in 1..Len(sheet2_grid[i]) : Aligned(i, j)

\* the grids are aligned on a table with a missing yield in every pixel
C26_AlignedWitness ==
    /\ Sheet2Built
    /\ Len(PixelsWithData) = Len(TsColumns)
    /\ \A k \in 1..Len(TsColumns) : \E i \in 1..Len(df_ts) : isna(df_ts[i][TsColumns[k]])
    /\ \A i \in 1..Len(sheet2_grid) : \A j \in 1..Len(sheet2_grid[i]) : Aligned(i, j)

\* the first pixel has no yield: its column of sheet 2 reads the yields of
\* the second pixel
C26_ShiftedWitness ==
    /\ Sheet2Built
    /\ Len(sheet2_grid) > 0
    /\ LET f == sheet2_grid[1][1]
           y == sheet1_cell(pivot, f.y_ref.row, f.y_ref.col)
       IN  /\ y # <<>>
           /\ f.pixel = Num(TsColumns[1])
           /\ y[1].pixel = Num(TsColumns[2])

----------------------------------------------------------------------------
(* The zone of a region in the pixel table and in the regional table.      *)

ZonesAssigned == area_out # <<>> /\ area_out[1] = "zones"

\* C27: the Area that load_and_merge gives a region is the area under which
\* build_regional_statistics lists it, and "Unknown" when it lists the
\* region under no area.
C27_MappingsAgree ==
    ZonesAssigned =>
        IF area_out[3] = "None" THEN area_out[2] = "Unknown"
        ELSE area_out[2] = area_out[3]

\* the part of C27 that holds: a region that the regional table lists under
\* an area, its name not corrected on the way, has that Area
C27_ListedRegionHasItsArea ==
    (ZonesAssigned /\ area_out[3] # "None" /\ region_in # Txt_Rukva) =>
        area_out[2] = area_out[3]

\* a region written in lower case is in the same zone in both tables
C27_AgreeWitness ==
    /\ ZonesAssigned
    /\ region_in = lower(Txt_Dar_Es_Salaam)
    /\ area_out[2] = "Coastal Zone"
    /\ area_out[3] = "Coastal Zone"

\* "Rukwa Region" has Area Southern Highlands Zone and no column in the
\* regional table
C27_RegionSuffixWitness ==
    /\ ZonesAssigned
    /\ region_in = Txt_Rukwa \o <<" ", "R", "e", "g", "i", "o", "n">>
    /\ area_out[2] = "Southern Highlands Zone"
    /\ area_out[3] = "None"

----------------------------------------------------------------------------
(* The year rows of sheet 3 and the rows that sheet 7 reads.               *)

\* sorted(set(...)) of integers
RECURSIVE sorted_set(_)
sorted_set(S) ==
    IF S = {} THEN <<>>
    ELSE LET m == CHOOSE x \in S : \A y \in S : x <= y
         IN  <<m>> \o sorted_set(S \ {m})

\* the Year values tried: years of the series, with gaps, and two years
\* outside 1900..2100
YearChoices == {1899, 1981, 1982, 1983, 1985, 2022, 2101}

InitChart ==
    /\ PipelineIdle
    /\ regional = <<>>
    /\ AreaIdle
    /\ YearIdle
    /\ SheetIdle
    /\ PivotIdle
    /\ BenefitIdle
    /\ RerunIdle
    /\ RawIdle
    /\ MatchIdle
    /\ BuildIdle
    /\ report_years \in SUBSET YearChoices
    /\ sheet3_labels = <<>>
    /\ sheet7_chart = <<>>

\* lines 81-82 and 207-213 of builder_excel_sheet3_formulas_fmt2.py: the
\* year labels of column E, year i of the sorted years in row
\* ROW_FIRST_DATA + i (i from 0)
sheet3_year_labels(ys) ==
    LET year_list == sorted_set(ys)
    IN  [i \in 1..Len(year_list) |-> [row |-> ROW_FIRST_DATA + (i - 1), year |-> year_list[i]]]

\* _detect_years: the labels of the index of the regional table that are
\* digits and lie in 1900..2100, sorted; the index holds str(y) of every
\* year of the data, a string of digits, and the names of the statistics
detect_years(ys) == sorted_set({y \in ys : 1900 <= y /\ y <= 2100})

\* lines 109-143 of builder_excel_sheet7_8_9_formulas.py: year i of the
\* detected years is written in row i + 1 and its formulas sum the row
\* 10 + (y - first_year) of sheet 3
sheet7_rows(ys) ==
    LET yrs        == detect_years(ys)
        first_year == yrs[1]
    IN  [k \in 1..Len(yrs) |->
            [row |-> k + 1, year |-> yrs[k], sheet3_row_for_y |-> 10 + (yrs[k] - first_year)]]

\* build_excel_sheet3(df_final, wb)
BuildExcelSheet3 ==
    /\ sheet3_labels = <<>>
    /\ sheet3_labels' = <<sheet3_year_labels(report_years)>>
    /\ UNCHANGED <<report_years, sheet7_chart>>
    /\ UNCHANGED <<pipeline_vars, regional, area_vars, year_vars, sheet_vars>>
    /\ UNCHANGED <<pivot_vars, benefit_vars, rerun_vars, raw_vars, match_vars, build_vars>>

\* build_excel_sheet7_chartdata(df_regional, wb), after sheet 3
BuildExcelSheet7Chartdata ==
    /\ sheet3_labels # <<>>
    /\ sheet7_chart = <<>>
    /\ sheet7_chart' = <<sheet7_rows(report_years)>>
    /\ UNCHANGED <<report_years, sheet3_labels>>
    /\ UNCHANGED <<pipeline_vars, regional, area_vars, year_vars, sheet_vars>>
    /\ UNCHANGED <<pivot_vars, benefit_vars, rerun_vars, raw_vars, match_vars, build_vars>>

NextChart ==
    \/ BuildExcelSheet3
    \/ BuildExcelSheet7Chartdata

SpecChart == InitChart /\ [][NextChart]_vars

ChartDataBuilt == sheet3_labels # <<>> /\ sheet7_chart # <<>>

\* the row of sheet 3 that the formulas of row k of sheet 7 read is the row
\* with the label of their year
ReadsItsYear(k) ==
    \E i \in 1..Len(sheet3_labels[1]) :
        /\ sheet3_labels[1][i].row = sheet7_chart[1][k].sheet3_row_for_y
        /\ sheet3_labels[1][i].year = sheet7_chart[1][k].year

\* C28: for every year written on sheet 7, the row of sheet 3 that its
\* formulas read is the row in which sheet 3 holds that year, whatever the
\* years of the data, contiguous or not.
C28_YearRowAlignment ==
    ChartDataBuilt => \A k \in 1..Len(sheet7_chart[1]) : ReadsItsYear(k)

\* the years of the data follow each other without a gap, all in 1900..2100
Contiguous ==
    /\ \A y \in report_years : 1900 <= y /\ y <= 2100
    /\ \A y, z \in report_years : \A x \in y..z : x \in report_years

\* the part of C28 that holds: the rows are aligned when the years are
\* contiguous
C28_AlignedWhenContiguous ==
    (ChartDataBuilt /\ Contiguous) =>
        \A k \in 1..Len(sheet7_chart[1]) : ReadsItsYear(k)

\* three contiguous years, each read from its row
C28_ContiguousWitness ==
    /\ ChartDataBuilt
    /\ report_years = {1981, 1982, 1983}
    /\ \A k \in 1..3 : ReadsItsYear(k)

\* 1981, 1983: the formulas of 1983 read row 12, sheet 3 holds 1983 in row 11
C28_GapWitness ==
    /\ ChartDataBuilt
    /\ report_years = {1981, 1983}
    /\ sheet7_chart[1][2].year = 1983
    /\ sheet7_chart[1][2].sheet3_row_for_y = 12
    /\ sheet3_labels[1][2] = [row |-> 11, year |-> 1983]

----------------------------------------------------------------------------
(* match_villages_to_pixels of map_villages_to_modelgridcells.py.          *)

MaxFarmers == 3

\* a row of the highlands file: a farmer.  Village and Region are joined
\* per pixel and take no part in the counts; they are left out
HighlandsRows ==
    [District    : {"A", "B"},
     Latitude    : {NaN, Num(0), Num(2)},
     Longitude   : {NaN, Num(0)},
     Loan_Amount : {<<"5">>, <<"n", "/", "a">>}]

\* the metadata files tried: two grid cells; the first without a pixel id;
\* both with the same pixel id
MetadataFiles ==
    {<<[pixel |-> Num(10), Lat |-> Num(0), Lon |-> Num(0)],
       [pixel |-> Num(11), Lat |-> Num(2), Lon |-> Num(0)]>>,
     <<[pixel |-> NaN,     Lat |-> Num(0), Lon |-> Num(0)],
       [pixel |-> Num(11), Lat |-> Num(2), Lon |-> Num(0)]>>,
     <<[pixel |-> Num(10), Lat |-> Num(0), Lon |-> Num(0)],
       [pixel |-> Num(10), Lat |-> Num(2), Lon |-> Num(0)]>>}

InitMatch ==
    /\ PipelineIdle
    /\ regional = <<>>
    /\ AreaIdle
    /\ YearIdle
    /\ SheetIdle
    /\ PivotIdle
    /\ BenefitIdle
    /\ RerunIdle
    /\ RawIdle
    /\ ChartIdle
    /\ BuildIdle
    /\ highlands_df \in [1..MaxFarmers -> HighlandsRows]
    /\ metadata_df \in MetadataFiles
    /\ match_result = <<>>

\* geodesic(...).meters between points a few grid cells apart, up to a
\* monotone map: the squared distance in degrees
distance(lat1, lon1, lat2, lon2) ==
    Add(Mul(Sub(lat1, lat2), Sub(lat1, lat2)), Mul(Sub(lon1, lon2), Sub(lon1, lon2)))

\* np.argmin: the first index of the least distance
argmin(dists) ==
    CHOOSE j \in 1..Len(dists) :
        /\ \A k \in 1..Len(dists) : Le(dists[j], dists[k])
        /\ \A k \in 1..(j - 1) : Lt(dists[j], dists[k])

\* lines 25-28: the rows with coordinates, their loans as numbers
farmers_of(h) ==
    LET kept == SelectRows(h, [i \in 1..Len(h) |-> ~isna(h[i].Latitude) /\ ~isna(h[i].Longitude)])
    IN  [i \in 1..Len(kept) |->
            [kept[i] EXCEPT !.Loan_Amount = fillna0(to_numeric(@))]]

\* lines 35-50: every farmer with the pixel id of the nearest grid cell
assignments_of(farmers, m) ==
    [i \in 1..Len(farmers) |->
        LET dists   == [j \in 1..Len(m) |->
                          distance(farmers[i].Latitude, farmers[i].Longitude, m[j].Lat, m[j].Lon)]
            min_idx == argmin(dists)
        IN  [District    |-> farmers[i].District,
             Pixel       |-> m[min_idx].pixel,
             Loan_Amount |-> farmers[i].Loan_Amount]]

\* the rows of a group of groupby("Pixel")
pixel_group(matches_df, px) ==
    SelectRows(matches_df, [i \in 1..Len(matches_df) |-> matches_df[i].Pixel = px])

\* lines 9-79.  pd.DataFrame([]) has no column: groupby("Pixel") raises
\* KeyError when no farmer has coordinates.  groupby drops the rows whose
\* key is null (dropna=True) and sorts the keys
match_villages_to_pixels(h, m) ==
    LET farmers    == farmers_of(h)
        matches_df == assignments_of(farmers, m)
        keys       == sorted(SetToSeq({matches_df[i].Pixel : i \in 1..Len(matches_df)} \ {NaN}))
        bad        == {k \in 1..Len(keys) :
                          Cardinality({pixel_group(matches_df, keys[k])[i].District :
                                          i \in 1..Len(pixel_group(matches_df, keys[k]))}) > 1}
        grouped    == [k \in 1..Len(keys) |->
                          LET g == pixel_group(matches_df, keys[k])
                          IN  [Pixel             |-> keys[k],
                               Farmer_Number     |-> Len(g),
                               Pixel_Loan_Amount |-> SumSeq([i \in 1..Len(g) |-> g[i].Loan_Amount])]]
    IN  IF farmers = <<>>
        THEN [raised |-> "KeyError", grouped |-> <<>>, output_file |-> <<>>]
        ELSE IF bad # {}
        THEN [raised |-> "ValueError", grouped |-> <<>>, output_file |-> <<>>]
        ELSE [raised |-> "none", grouped |-> grouped, output_file |-> <<grouped>>]

MatchVillagesToPixels ==
    /\ match_result = <<>>
    /\ match_result' = <<match_villages_to_pixels(highlands_df, metadata_df)>>
    /\ UNCHANGED <<highlands_df, metadata_df>>
    /\ UNCHANGED <<pipeline_vars, regional, area_vars, year_vars, sheet_vars>>
    /\ UNCHANGED <<pivot_vars, benefit_vars, rerun_vars, raw_vars, chart_vars, build_vars>>

NextMatch == MatchVillagesToPixels

SpecMatch == InitMatch /\ [][NextMatch]_vars

Matched == match_result # <<>>

\* the farmers of the input: the rows with a latitude and a longitude
Farmers == {i \in 1..MaxFarmers : ~isna(highlands_df[i].Latitude) /\ ~isna(highlands_df[i].Longitude)}

\* the grid cell nearest to farmer i: no cell is nearer, none before it as near
Nearest(i) ==
    CHOOSE j \in 1..Len(metadata_df) :
        \A k \in 1..Len(metadata_df) :
            LET dj == distance(highlands_df[i].Latitude, highlands_df[i].Longitude,
                               metadata_df[j].Lat, metadata_df[j].Lon)
                dk == distance(highlands_df[i].Latitude, highlands_df[i].Longitude,
                               metadata_df[k].Lat, metadata_df[k].Lon)
            IN  Lt(dj, dk) \/ (dj = dk /\ j <= k)

NearestPixel(i) == metadata_df[Nearest(i)].pixel

\* the loan of farmer i, 0 when it is not a number
LoanOf(i) == IF highlands_df[i].Loan_Amount = <<"5">> THEN Num(5) ELSE Zero

\* the farmers of some pixel come from two districts
SpansDistricts ==
    \E i, j \in Farmers :
        /\ NearestPixel(i) = NearestPixel(j)
        /\ highlands_df[i].District # highlands_df[j].District

\* the output conserves the farmers and the loans
Conserved ==
    LET r == match_result[1]
    IN  /\ r.raised = "none"
        /\ r.output_file = <<r.grouped>>
        /\ \A i \in Farmers :
              Cardinality({k \in 1..Len(r.grouped) : r.grouped[k].Pixel = NearestPixel(i)}) = 1
        /\ \A k \in 1..Len(r.grouped) :
              /\ r.grouped[k].Farmer_Number =
                    Cardinality({i \in Farmers : NearestPixel(i) = r.grouped[k].Pixel})
              /\ r.grouped[k].Farmer_Number > 0
              /\ r.grouped[k].Pixel_Loan_Amount =
                    SumSeq([n \in 1..MaxFarmers |->
                               IF n \in Farmers /\ NearestPixel(n) = r.grouped[k].Pixel
                               THEN LoanOf(n) ELSE Zero])
        /\ SumSeq([k \in 1..Len(r.grouped) |-> Num(r.grouped[k].Farmer_Number)])
              = Num(Cardinality(Farmers))
        /\ SumSeq([k \in 1..Len(r.grouped) |-> r.grouped[k].Pixel_Loan_Amount])
              = SumSeq([n \in 1..MaxFarmers |-> IF n \in Farmers THEN LoanOf(n) ELSE Zero])

Refused ==
    /\ match_result[1].raised = "ValueError"
    /\ match_result[1].output_file = <<>>

\* C29: match_villages_to_pixels gives every farmer with coordinates to one
\* pixel, returns one row per pixel, and the farmer numbers and the loan
\* amounts of the rows add up to those of the farmers, a loan that is not
\* a number counting 0; when the farmers of a pixel come from more than one
\* district it raises ValueError and writes no file.
C29_FarmersAndLoansConserved ==
    Matched => IF SpansDistricts THEN Refused ELSE Conserved

\* the part of C29 that holds: the same, for an input with a farmer and
\* with a pixel id in the grid cell nearest to every farmer
C29_ConservedWithPixelIds ==
    (Matched /\ Farmers # {} /\ \A i \in Farmers : ~isna(NearestPixel(i))) =>
        IF SpansDistricts THEN Refused ELSE Conserved

\* three farmers of one district in two pixels, one loan not a number
C29_Witness ==
    /\ Matched
    /\ Cardinality(Farmers) = 3
    /\ Conserved
    /\ Len(match_result[1].grouped) = 2
    /\ \E i \in Farmers : highlands_df[i].Loan_Amount # <<"5">>
    /\ \E k \in 1..2 : match_result[1].grouped[k].Farmer_Number = 2

\* two farmers of two districts in a pixel: ValueError, no file
C29_RefusedWitness ==
    /\ Matched
    /\ SpansDistricts
    /\ Refused

\* a farmer nearest to the grid cell without a pixel id is in no row
C29_LostFarmerWitness ==
    /\ Matched
    /\ match_result[1].raised = "none"
    /\ \E i \in Farmers : isna(NearestPixel(i))
    /\ SumSeq([k \in 1..Len(match_result[1].grouped) |->
                  Num(match_result[1].grouped[k].Farmer_Number)]) # Num(Cardinality(Farmers))

----------------------------------------------------------------------------
(* build_final_report of build_final_sheet.py: the workbook, sheet by      *)
(* sheet.  A workbook is the sequence of the titles of its sheets; the     *)
(* first is the active one.                                                *)

\* build_final_report with the chart of sheet 8 built before its data
report_steps_chart_first ==
    <<"Workbook",
      "build_excel_sheet1", "build_excel_sheet2", "build_excel_sheet3",
      "build_excel_sheet4", "build_excel_sheet5", "build_excel_sheet6",
      "build_excel_sheet8_area_payout_chart",
      "build_excel_sheet7_chartdata",
      "augment_sheet7_with_percentage_block",
      "build_excel_sheet9_area_payout_pct_chart",
      "build_excel_sheet10_diversification_chart",
      "build_excel_sheet0_summary",
      "remove_default_sheet",
      "save">>

\* lines 62-94 of build_final_report: its calls, in order
report_steps ==
    <<"Workbook",
      "build_excel_sheet1", "build_excel_sheet2", "build_excel_sheet3",
      "build_excel_sheet4", "build_excel_sheet5", "build_excel_sheet6",
      "build_excel_sheet7_chartdata",
      "augment_sheet7_with_percentage_block",
      "build_excel_sheet8_area_payout_chart",
      "build_excel_sheet9_area_payout_pct_chart",
      "build_excel_sheet10_diversification_chart",
      "build_excel_sheet0_summary",
      "remove_default_sheet",
      "save">>

\* the workbooks given to a builder called on its own: some of these
\* sheets, in this order
SheetChoices ==
    <<"Sheet", "3. Payout Amounts", "6. Regional Totals (Stats Only)", "7. Chart Data",
      "8. Area Payout Chart", "9. Area Payout %", "10. Diversification Benefit">>

ReportWorkbooks ==
    {SelectRows(SheetChoices, [i \in 1..Len(SheetChoices) |-> i \in S]) :
        S \in (SUBSET (1..Len(SheetChoices))) \ {{}}}

\* the builders that take no table of the pipeline, or only the regional one
OwnCall ==
    {"build_excel_sheet7_chartdata", "augment_sheet7_with_percentage_block",
     "build_excel_sheet8_area_payout_chart", "build_excel_sheet9_area_payout_pct_chart",
     "build_excel_sheet10_diversification_chart", "build_excel_sheet0_summary"}

InitReport ==
    /\ PipelineIdle
    /\ regional = <<>>
    /\ AreaIdle
    /\ YearIdle
    /\ PivotIdle
    /\ BenefitIdle
    /\ RerunIdle
    /\ RawIdle
    /\ ChartIdle
    /\ MatchIdle
    /\ sheet_df = <<>>
    /\ sheet_cols = <<>>
    /\ raised = <<>>
    /\ sheet_op = "none"
    /\ \/ report_pc = 1 /\ wb = <<>>
       \/ report_pc = 0 /\ wb \in ReportWorkbooks

\* sheet_name in [ws.title for ws in wb.worksheets]
has_sheet(book, sheet_name) == \E i \in 1..Len(book) : book[i] = sheet_name

\* wb.remove(wb[sheet_name])
remove_sheet(book, sheet_name) == SelectSeq(book, LAMBDA t : t # sheet_name)

\* if the sheet exists remove it; wb.create_sheet(title=sheet_name)
recreate_sheet(book, sheet_name) == Append(remove_sheet(book, sheet_name), sheet_name)

\* the call b is the next one: the step of build_final_report, which stops
\* at an exception, or the one call of a builder on its own
Turn(b) ==
    \/ report_pc = 0 /\ sheet_op = "none" /\ b \in OwnCall
    \/ /\ report_pc \in 1..Len(report_steps)
       /\ raised = <<>>
       /\ report_steps[report_pc] = b

\* the call b returns the workbook, or raises
Returns(b, book, exception) ==
    /\ wb' = book
    /\ raised' = exception
    /\ sheet_op' = b
    /\ report_pc' = IF report_pc = 0 THEN 0 ELSE report_pc + 1
    /\ UNCHANGED <<sheet_df, sheet_cols>>
    /\ UNCHANGED <<pipeline_vars, regional, area_vars, year_vars>>
    /\ UNCHANGED <<pivot_vars, benefit_vars, rerun_vars, raw_vars, chart_vars, match_vars>>

ValueError(message) == <<[exception |-> "ValueError", message |-> message]>>

\* line 62: wb = Workbook()
NewWorkbook ==
    /\ Turn("Workbook")
    /\ Returns("Workbook", <<"Sheet">>, <<>>)

\* lines 65-68, on the table of load_and_merge, which has the columns the
\* builders ask for.  Sheets 2 and 4 are built as by
\* builder_excel_sheet2_formulas.py and builder_excel_sheet4_formulas.py
ReportSheet1 ==
    /\ Turn("build_excel_sheet1")
    /\ Returns("build_excel_sheet1", add_sheet(wb, "1. Modelled Yield"), <<>>)

ReportSheet2 ==
    /\ Turn("build_excel_sheet2")
    /\ Returns("build_excel_sheet2", add_sheet(wb, "2. Payouts %"), <<>>)

ReportSheet3 ==
    /\ Turn("build_excel_sheet3")
    /\ Returns("build_excel_sheet3", add_sheet(wb, "3. Payout Amounts"), <<>>)

ReportSheet4 ==
    /\ Turn("build_excel_sheet4")
    /\ Returns("build_excel_sheet4", add_sheet(wb, "4. Pixel Stats"), <<>>)

\* lines 69-70: the two tables of build_regional_statistics have the same
\* index and columns
ReportSheet5 ==
    /\ Turn("build_excel_sheet5")
    /\ Returns("build_excel_sheet5", add_sheet(wb, "5. Regional Totals"), <<>>)

ReportSheet6 ==
    /\ Turn("build_excel_sheet6")
    /\ Returns("build_excel_sheet6", add_sheet(wb, "6. Regional Totals (Stats Only)"), <<>>)

\* build_excel_sheet7_chartdata: the sheet is cleared if it exists, created
\* otherwise; without sheet 3 it takes every area
ReportSheet7Chartdata ==
    /\ Turn("build_excel_sheet7_chartdata")
    /\ LET w == IF wb = <<>> THEN <<"Sheet">> ELSE wb
       IN  Returns("build_excel_sheet7_chartdata",
                   IF has_sheet(w, "7. Chart Data") THEN w ELSE Append(w, "7. Chart Data"),
                   <<>>)

\* augment_sheet7_with_percentage_block: the block is written on sheet 7
ReportAugmentSheet7 ==
    /\ Turn("augment_sheet7_with_percentage_block")
    /\ IF ~has_sheet(wb, "7. Chart Data")
       THEN Returns("augment_sheet7_with_percentage_block", wb,
                    ValueError("{sheet7_name} must exist before creating the percentage block."))
       ELSE Returns("augment_sheet7_with_percentage_block", wb, <<>>)

\* build_excel_sheet8_area_payout_chart
ReportSheet8 ==
    /\ Turn("build_excel_sheet8_area_payout_chart")
    /\ IF ~has_sheet(wb, "7. Chart Data")
       THEN Returns("build_excel_sheet8_area_payout_chart", wb,
                    ValueError("{sheet7_name} must exist before creating the chart."))
       ELSE Returns("build_excel_sheet8_area_payout_chart",
                    recreate_sheet(wb, "8. Area Payout Chart"), <<>>)

\* build_excel_sheet9_area_payout_pct_chart
ReportSheet9 ==
    /\ Turn("build_excel_sheet9_area_payout_pct_chart")
    /\ IF ~has_sheet(wb, "7. Chart Data")
       THEN Returns("build_excel_sheet9_area_payout_pct_chart", wb,
                    ValueError("{sheet7_name} must exist before creating the chart."))
       ELSE Returns("build_excel_sheet9_area_payout_pct_chart",
                    recreate_sheet(wb, "9. Area Payout %"), <<>>)

\* build_excel_sheet10_diversification_chart, on a sheet 6 as
\* build_excel_sheet6 writes it, with its two CoV rows
ReportSheet10 ==
    /\ Turn("build_excel_sheet10_diversification_chart")
    /\ IF ~has_sheet(wb, "6. Regional Totals (Stats Only)")
       THEN Returns("build_excel_sheet10_diversification_chart", wb,
                    ValueError("{sheet6_name} must exist before creating Sheet 10."))
       ELSE Returns("build_excel_sheet10_diversification_chart",
                    recreate_sheet(wb, "10. Diversification Benefit"), <<>>)

\* build_excel_sheet0_summary: the sheet is created anew at index 0
ReportSheet0Summary ==
    /\ Turn("build_excel_sheet0_summary")
    /\ Returns("build_excel_sheet0_summary",
               <<"0. Summary">> \o remove_sheet(wb, "0. Summary"), <<>>)

\* lines 90-91
RemoveDefaultSheet ==
    /\ Turn("remove_default_sheet")
    /\ Returns("remove_default_sheet",
               IF has_sheet(wb, "Sheet") /\ Len(wb) > 1 THEN remove_sheet(wb, "Sheet") ELSE wb,
               <<>>)

\* line 94: wb.save(out_path)
SaveReport ==
    /\ Turn("save")
    /\ Returns("save", wb, <<>>)

NextReport ==
    \/ NewWorkbook
    \/ ReportSheet1
    \/ ReportSheet2
    \/ ReportSheet3
    \/ ReportSheet4
    \/ ReportSheet5
    \/ ReportSheet6
    \/ ReportSheet7Chartdata
    \/ ReportAugmentSheet7
    \/ ReportSheet8
    \/ ReportSheet9
    \/ ReportSheet10
    \/ ReportSheet0Summary
    \/ RemoveDefaultSheet
    \/ SaveReport

SpecReport == InitReport /\ [][NextReport]_vars

\* the sheets that a builder reads; the summary, built last, comes after
\* every other sheet
Reads(b) ==
    CASE b = "build_excel_sheet7_chartdata" -> {"3. Payout Amounts"}
      [] b = "augment_sheet7_with_percentage_block" -> {"7. Chart Data"}
      [] b = "build_excel_sheet8_area_payout_chart" -> {"7. Chart Data"}
      [] b = "build_excel_sheet9_area_payout_pct_chart" -> {"7. Chart Data"}
      [] b = "build_excel_sheet10_diversification_chart" -> {"6. Regional Totals (Stats Only)"}
      [] b = "build_excel_sheet0_summary" ->
            {"1. Modelled Yield", "2. Payouts %", "3. Payout Amounts", "4. Pixel Stats",
             "5. Regional Totals", "6. Regional Totals (Stats Only)", "7. Chart Data",
             "8. Area Payout Chart", "9. Area Payout %", "10. Diversification Benefit"}
      [] OTHER -> {}

\* the builders that check for the sheet they read
Checking ==
    {"augment_sheet7_with_percentage_block", "build_excel_sheet8_area_payout_chart",
     "build_excel_sheet9_area_payout_pct_chart", "build_excel_sheet10_diversification_chart"}

InReport == report_pc \in 1..Len(report_steps)

ReportDone == report_pc = Len(report_steps) + 1

\* no call of build_final_report has raised and the next one finds the
\* sheets it reads
SheetsReadExist ==
    InReport =>
        /\ raised = <<>>
        /\ \A t \in Reads(report_steps[report_pc]) : has_sheet(wb, t)

\* the saved workbook has no sheet "Sheet"
NoDefaultSheetAtEnd ==
    ReportDone => (raised = <<>> /\ ~has_sheet(wb, "Sheet"))

\* a checking builder called without the sheet it reads raises ValueError
\* and leaves the workbook as it was
RaisesWithoutPrerequisite ==
    \A b \in Checking :
        (Turn(b) /\ sheet_op' = b /\ \E t \in Reads(b) : ~has_sheet(wb, t)) =>
            /\ raised' # <<>>
            /\ raised'[1].exception = "ValueError"
            /\ wb' = wb

\* C30: in build_final_report every builder runs after the sheets it reads
\* exist (sheet 3 before sheet 7, sheet 7 before its percentage block and
\* sheets 8 and 9, sheet 6 before sheet 10, the summary last); the builders
\* of the percentage block and of sheets 8, 9 and 10 raise ValueError and
\* leave the workbook unchanged when the sheet they read is missing; the
\* finished workbook has no sheet named "Sheet".
C30_BuildOrder ==
    /\ [](SheetsReadExist /\ NoDefaultSheetAtEnd)
    /\ [][RaisesWithoutPrerequisite]_vars

\* the report is saved with the summary first and the ten sheets after it
C30_Witness ==
    /\ ReportDone
    /\ sheet_op = "save"
    /\ wb = <<"0. Summary", "1. Modelled Yield", "2. Payouts %", "3. Payout Amounts",
              "4. Pixel Stats", "5. Regional Totals", "6. Regional Totals (Stats Only)",
              "7. Chart Data", "8. Area Payout Chart", "9. Area Payout %",
              "10. Diversification Benefit">>

\* sheet 8 asked of a workbook without sheet 7: ValueError
C30_RaisedWitness ==
    /\ report_pc = 0
    /\ sheet_op = "build_excel_sheet8_area_payout_chart"
    /\ ~has_sheet(wb, "7. Chart Data")
    /\ has_sheet(wb, "8. Area Payout Chart")
    /\ raised # <<>>

====
